---- MODULE Spec2Model ----
(***************************************************************************)
(* A model of rcoredumpd, the indexer of elwinar/rcoredump: the upload     *)
(* pipeline (indexRequest), the file store, the index, the analysis        *)
(* worker and the cleanup worker, as goroutines that share the store and   *)
(* the index.                                                              *)
(***************************************************************************)
EXTENDS Integers, Sequences, FiniteSets, Bags, TLC

\* Bounds of the model.
MaxUploads == 2
MaxDeletes == 2
\* The documents an earlier run of the service left in the index.
MaxLeftover == 11
\* The parts (tokens and text between them) of a path that is expanded.
MaxParts == 3
\* The files of libraries that exist when a library is resolved.
MaxFiles == 2
\* The lines of a configuration file, and the flags given on a command line.
MaxLines == 2
MaxArgs == 2
\* The calls of Set on a map flag.
MaxSets == 2
\* The calls of Index on the bleve index.
MaxIndexed == 2

Slots == 1..MaxUploads

\* HTTP statuses used by the handlers.
StatusOK == 200
StatusInternalServerError == 500
StatusBadRequest == 400
StatusAccepted == 202
StatusNotFound == 404

\* The languages the analysis tells apart.
LangC == "C"
LangGo == "Go"

\* What time.Now() returns: a time that is not the zero time.
Now == 1

\* The value of a nil error.
NoErr == ""

\* The executables that exist on the forwarders' hosts, as byte strings.
ExeFiles == {<<1, 2>>, <<2, 1>>}

\* SHA-1 of a byte string, hex encoded: modelled as an injective encoding of
\* the bytes (base 3 over the bytes 1 and 2), i.e. without collisions.
RECURSIVE Sha1(_)
Sha1(s) == IF s = <<>> THEN 0 ELSE Head(s) + 3 * Sha1(Tail(s))

hashExecutable(file) == Sha1(file)

\* The executable has a section .go.buildinfo: the Go executable is the one
\* whose first byte is 2.
HasGoBuildInfo(file) == Len(file) > 0 /\ Head(file) = 2

Hashes == {hashExecutable(f) : f \in ExeFiles}

\* The links (imported libraries) a header may declare.
LinkFound == [name |-> "liba", found |-> TRUE, error |-> ""]
LinkMissing == [name |-> "libb", found |-> FALSE, error |-> ""]
LinkLists == {<<>>, <<LinkFound>>, <<LinkMissing, LinkFound>>}

\* The link segments of a body: one per link found without error.
RECURSIVE SentLinks(_)
SentLinks(links) ==
    IF links = <<>> THEN <<>>
    ELSE IF Len(Head(links).error) # 0 \/ ~Head(links).found
         THEN SentLinks(Tail(links))
         ELSE <<Head(links).name>> \o SentLinks(Tail(links))

\* What can go wrong with an upload: an invalid or missing gzip stream for
\* segment `at`, a stream that ends in the middle of segment `at`, a header
\* that is not JSON, an error of the index.
NoFault == [kind |-> "none", at |-> 0]
Faults ==
    {NoFault, [kind |-> "json", at |-> 1], [kind |-> "index", at |-> 0]}
    \cup [kind : {"gzip"}, at : 1..3] \cup [kind : {"cut"}, at : 2..3]

\* The body the forwarder writes on the pipe: the header, the core, the
\* executable if it is sent, and the links found (sent only with the
\* executable).  Each segment is an independent gzip stream.
ForwarderBody(in) ==
    <<"header", "core">>
    \o (IF in.incl THEN <<"executable">> ELSE <<>>)
    \o (IF in.incl THEN SentLinks(in.links) ELSE <<>>)

\* An upload as the forwarder sends it: the executable segment holds the
\* bytes that were hashed, the header tells whether it is there (the links
\* are left out: the handler of the indexer reads none).
ForwarderInputs ==
    {[hash |-> hashExecutable(f), incl |-> i, exe |-> f, links |-> <<>>, fault |-> NoFault] :
        f \in ExeFiles, i \in BOOLEAN}

\* An upload as any client may send it: any executable under any hash, links,
\* and streams that are invalid or end early.
AnyInputs ==
    {in \in [hash : Hashes, incl : BOOLEAN, exe : ExeFiles, links : LinkLists, fault : Faults] :
        /\ ~in.incl => in.exe = <<1, 2>> /\ in.links = <<>>
        /\ in.links # <<>> => in.fault = NoFault /\ in.exe = <<1, 2>> /\ in.hash = hashExecutable(in.exe)
        /\ in.fault # NoFault => in.exe = <<1, 2>>
        /\ in.fault.at = 3 => in.incl
        /\ in.fault.at \in {1, 2} => in.hash = hashExecutable(in.exe) /\ in.incl}

NoInput == [hash |-> 0, incl |-> FALSE, exe |-> <<>>, links |-> <<>>, fault |-> NoFault]

\* The zero value of a Coredump and of an IndexRequest.
ZeroCoredump ==
    [uid |-> 0, executable_hash |-> 0, links |-> <<>>, executable_size |-> 0,
     analyzed |-> FALSE, analyzed_at |-> 0, lang |-> ""]
ZeroRequest == [executable_hash |-> 0, include_executable |-> FALSE, links |-> <<>>]

VARIABLES
    index,      \* the index: uid -> Coredump, for the indexed uids
    store,      \* the file store: cores, executables and links
    nextUid,    \* the generator of unique ids
    up,         \* the upload handlers (one indexRequest each)
    an,         \* the analysis worker
    cl,         \* the cleanup worker
    delSending, \* the DELETE handlers that wait to send on the cleanup queue
    delIssued,  \* the number of DELETE requests received
    deleted,    \* history: the uids whose DELETE was answered 200
    hd,         \* the handler of /cores/:uid/_analyze and DELETE /cores/:uid
    fw,         \* the forwarders (one run of rcoredump each)
    rc,         \* the recovery goroutine of service.run and its context
    ex          \* a call of package elfx or of the resolver of the forwarder

\* The variables of the parts of the program around the upload pipeline and
\* its two workers.
more == <<rc, ex>>
side == <<hd, fw, more>>

vars == <<index, store, nextUid, up, an, cl, delSending, delIssued, deleted, side>>

----------------------------------------------------------------------------
\* Functions with a finite domain, as directories of files and documents.

Put(f, k, v) == [x \in DOMAIN f \cup {k} |-> IF x = k THEN v ELSE f[x]]
Remove(f, k) == [x \in DOMAIN f \ {k} |-> f[x]]

\* The file store.

\* (Variant: the core is read and no file is made of it.)
StoreCoreNowhere(st, uid, complete) ==
    [st |-> st, err |-> IF complete THEN NoErr ELSE "reading core"]

StoreCore(st, uid, complete) ==
    [st |-> [st EXCEPT !.cores = st.cores \cup {uid}],
     err |-> IF complete THEN NoErr ELSE "reading core"]

\* The hash of a header without hash (the empty string): the path of the
\* executable is then the directory executables/ itself.
NoHash == 0

\* StoreExecutable, first half: os.Create makes the file, or empties it; it
\* fails on a directory.
StoreExecutableCreate(st, hash) ==
    IF hash = NoHash THEN [st |-> st, err |-> "creating executable file"]
    ELSE [st |-> [st EXCEPT !.executables = Put(st.executables, hash, <<>>)], err |-> NoErr]

\* (Variant: the copy stops one byte short and reports no error.)
StoreExecutableCopyShort(st, hash, data, complete) ==
    [st |-> [st EXCEPT !.executables = Put(st.executables, hash, SubSeq(data, 1, Len(data) - 1))],
     written |-> Len(data) - 1,
     err |-> NoErr]

\* StoreExecutable, second half: io.Copy writes the segment in the file, all
\* of it or, when the stream ends early, all but the end of it.
StoreExecutableCopy(st, hash, data, complete) ==
    [st |-> [st EXCEPT !.executables =
                Put(st.executables, hash, IF complete THEN data ELSE SubSeq(data, 1, Len(data) - 1))],
     written |-> IF complete THEN Len(data) ELSE 0,
     err |-> IF complete THEN NoErr ELSE "reading executable"]

ExecutableExists(st, hash) == hash \in DOMAIN st.executables

DeleteCore(st, uid) ==
    [st |-> [st EXCEPT !.cores = st.cores \ {uid}],
     err |-> IF uid \in st.cores THEN NoErr ELSE "no such file"]

DeleteExecutable(st, hash) ==
    [st |-> [st EXCEPT !.executables = Remove(st.executables, hash)],
     err |-> IF hash \in DOMAIN st.executables THEN NoErr ELSE "no such file"]

\* The index.
IndexDoc(ix, c) == Put(ix, c.uid, c)
IndexDelete(ix, uid) == Remove(ix, uid)
SearchExecutableHash(ix, hash) == {u \in DOMAIN ix : ix[u].executable_hash = hash}

----------------------------------------------------------------------------
\* The upload pipeline: every stage takes the request and returns it, and
\* does nothing once an error is recorded.

IdleRequest ==
    [pc |-> "idle", uid |-> 0, in |-> NoInput, err |-> NoErr, segs |-> 0,
     req |-> ZeroRequest, coredump |-> ZeroCoredump, log |-> <<>>,
     status |-> 0, body |-> "", copying |-> FALSE]

\* (Variant: the uid is not unique.)
initSameUid(rq, uid, in) ==
    [rq EXCEPT !.uid = 1, !.in = in,
               !.coredump = [ZeroCoredump EXCEPT !.uid = 1]]

\* indexRequest.init: a new uid for the request and its Coredump.
init(rq, uid, in) ==
    [rq EXCEPT !.uid = uid, !.in = in,
               !.coredump = [ZeroCoredump EXCEPT !.uid = uid]]

\* prepareReader starts the gzip stream of the next segment of the body.
prepareReaderFails(rq) ==
    \/ rq.segs + 1 > Len(ForwarderBody(rq.in))
    \/ rq.in.fault = [kind |-> "gzip", at |-> rq.segs + 1]

CutAt(rq, k) == rq.in.fault = [kind |-> "cut", at |-> k]

read(rq) ==
    IF rq.err # NoErr THEN rq
    ELSE IF prepareReaderFails(rq) THEN [rq EXCEPT !.err = "preparing gzip reader"]
    ELSE IF rq.in.fault.kind = "json"
         THEN [rq EXCEPT !.segs = @ + 1, !.err = "parsing header"]
    ELSE [rq EXCEPT !.segs = @ + 1,
                    !.log = Append(@, "header"),
                    !.req = [executable_hash |-> rq.in.hash,
                             include_executable |-> rq.in.incl,
                             links |-> rq.in.links],
                    !.coredump = [@ EXCEPT !.executable_hash = rq.in.hash,
                                           !.links = rq.in.links]]

\* (Variant: the core is stored whatever happened before.)
readCoreAnyway(rq, st) ==
    IF prepareReaderFails(rq)
    THEN [rq |-> [rq EXCEPT !.err = "preparing gzip reader"], st |-> st]
    ELSE LET r == StoreCore(st, rq.uid, ~CutAt(rq, 2))
         IN [rq |-> [rq EXCEPT !.segs = @ + 1, !.log = Append(@, "core"), !.err = r.err],
             st |-> r.st]

readCore(rq, st) ==
    IF rq.err # NoErr THEN [rq |-> rq, st |-> st]
    ELSE IF prepareReaderFails(rq)
         THEN [rq |-> [rq EXCEPT !.err = "preparing gzip reader"], st |-> st]
    ELSE LET r == StoreCore(st, rq.uid, ~CutAt(rq, 2))
         IN [rq |-> [rq EXCEPT !.segs = @ + 1, !.log = Append(@, "core"), !.err = r.err],
             st |-> r.st]

\* readExecutable up to the creation of the file by StoreExecutable.
readExecutable(rq, st) ==
    IF rq.err # NoErr THEN [rq |-> rq, st |-> st]
    ELSE IF prepareReaderFails(rq)
         THEN [rq |-> [rq EXCEPT !.err = "preparing gzip reader"], st |-> st]
    ELSE LET r == StoreExecutableCreate(st, rq.req.executable_hash)
         IN [rq |-> [rq EXCEPT !.segs = @ + 1, !.log = Append(@, "executable"),
                               !.copying = (r.err = NoErr), !.err = r.err],
             st |-> r.st]

\* readExecutable from the copy of the segment by StoreExecutable.
readExecutableCopy(rq, st) ==
    LET r == StoreExecutableCopy(st, rq.req.executable_hash, rq.in.exe, ~CutAt(rq, 3))
    IN [rq |-> [rq EXCEPT !.coredump.executable_size = r.written, !.err = r.err, !.copying = FALSE],
        st |-> r.st]

computeExecutableSize(rq, st) ==
    IF rq.err # NoErr THEN rq
    ELSE IF ~ExecutableExists(st, rq.req.executable_hash)
         THEN [rq EXCEPT !.err = "opening executable file"]
    ELSE [rq EXCEPT !.coredump.executable_size = Len(st.executables[rq.req.executable_hash])]

\* (Variant: the document is indexed whatever happened before.)
indexCoreAnyway(rq, ix) ==
    [rq |-> rq, ix |-> IndexDoc(ix, rq.coredump)]

indexCore(rq, ix) ==
    IF rq.err # NoErr THEN [rq |-> rq, ix |-> ix]
    ELSE IF rq.in.fault.kind = "index"
         THEN [rq |-> [rq EXCEPT !.err = "indexing core"], ix |-> ix]
    ELSE [rq |-> [rq EXCEPT !.log = Append(@, "index")], ix |-> IndexDoc(ix, rq.coredump)]

\* (Variant: the executable is read before the core.)
receiveExecutableFirst(rq, st) ==
    LET a == read(rq)
        b == IF a.req.include_executable
             THEN readExecutable(a, st)
             ELSE [rq |-> computeExecutableSize(a, st), st |-> st]
    IN readCore(b.rq, b.st)

\* service.indexCore, the calls from read to the executable: the header, the
\* core, then the executable stored or looked up.
receive(rq, st) ==
    LET a == read(rq)
        b == readCore(a, st)
    IN IF b.rq.req.include_executable
       THEN readExecutable(b.rq, b.st)
       ELSE [rq |-> computeExecutableSize(b.rq, b.st), st |-> b.st]

----------------------------------------------------------------------------
\* The analysis of one core (analyzeProcess).

\* (executable is what the open file held when it was opened; logged is the
\* error service.analyze logged for the analysis that ended last.)
IdleAnalysis ==
    [pc |-> "idle", uid |-> 0, core |-> ZeroCoredump, executable |-> <<>>,
     err |-> NoErr, logged |-> NoErr]

\* (Variant: the document read is the first one of the index.)
analyzeInitFirst(p, ix, st) ==
    IF p.err # NoErr THEN p
    ELSE IF p.uid \notin DOMAIN ix THEN [p EXCEPT !.err = "finding indexed core"]
    ELSE [p EXCEPT !.core = ix[CHOOSE u \in DOMAIN ix : \A v \in DOMAIN ix : u <= v],
                   !.executable = <<1, 2>>]

\* (Variant: a document that is not found is taken as an empty one.)
analyzeInitBlank(p, ix, st) ==
    IF p.err # NoErr THEN p
    ELSE IF p.uid \notin DOMAIN ix THEN [p EXCEPT !.core.uid = p.uid]
    ELSE IF ~ExecutableExists(st, ix[p.uid].executable_hash)
         THEN [p EXCEPT !.core = ix[p.uid], !.err = "opening core file"]
    ELSE IF p.uid \notin st.cores
         THEN [p EXCEPT !.core = ix[p.uid], !.err = "opening executable file"]
    ELSE [p EXCEPT !.core = ix[p.uid],
                   !.executable = st.executables[ix[p.uid].executable_hash]]

\* analyzeProcess.init: the document is read from the index, the executable
\* and the core are opened.
analyzeInit(p, ix, st) ==
    IF p.err # NoErr THEN p
    ELSE IF p.uid \notin DOMAIN ix THEN [p EXCEPT !.err = "finding indexed core"]
    ELSE IF ~ExecutableExists(st, ix[p.uid].executable_hash)
         THEN [p EXCEPT !.core = ix[p.uid], !.err = "opening core file"]
    ELSE IF p.uid \notin st.cores
         THEN [p EXCEPT !.core = ix[p.uid], !.err = "opening executable file"]
    ELSE [p EXCEPT !.core = ix[p.uid],
                   !.executable = st.executables[ix[p.uid].executable_hash]]

\* What the open executable holds: the file of the store, or what the file
\* held if it was removed since.
opened(p, st) ==
    IF ExecutableExists(st, p.core.executable_hash)
    THEN st.executables[p.core.executable_hash]
    ELSE p.executable

\* (Variant: the section .go.buildinfo is not looked at.)
detectLanguageC(p, st) ==
    IF p.err # NoErr THEN p
    ELSE IF opened(p, st) \notin ExeFiles
         THEN [p EXCEPT !.err = "opening executable file"]
    ELSE [p EXCEPT !.core.lang = LangC]

\* analyzeProcess.detectLanguage: an executable that is not whole is no ELF
\* file; Go is told from C by the section .go.buildinfo.
detectLanguage(p, st) ==
    IF p.err # NoErr THEN p
    ELSE IF opened(p, st) \notin ExeFiles
         THEN [p EXCEPT !.err = "opening executable file"]
    ELSE [p EXCEPT !.core.lang = IF HasGoBuildInfo(opened(p, st)) THEN LangGo ELSE LangC]

\* (Variant: the error of an earlier stage is forgotten when the debugger runs.)
extractStackTraceAnew(p, ok) ==
    IF ~ok THEN [p EXCEPT !.err = "extracting stack trace"]
    ELSE [p EXCEPT !.err = NoErr]

\* analyzeProcess.extractStackTrace: the debugger succeeds or fails.
extractStackTrace(p, ok) ==
    IF p.err # NoErr THEN p
    ELSE IF ~ok THEN [p EXCEPT !.err = "extracting stack trace"]
    ELSE p

analyzeRun(p, st, ok) == extractStackTrace(detectLanguage(p, st), ok)

\* (Variant: the results are written without their date.)
indexResultsUndated(p, ix, ixok) ==
    IF p.err # NoErr THEN [p |-> p, ix |-> ix]
    ELSE [p |-> p, ix |-> IndexDoc(ix, [p.core EXCEPT !.analyzed = TRUE])]

\* (Variant: a document of the results alone is written.)
indexResultsAlone(p, ix, ixok) ==
    IF p.err # NoErr THEN [p |-> p, ix |-> ix]
    ELSE IF ~ixok THEN [p |-> [p EXCEPT !.err = "indexing results"], ix |-> ix]
    ELSE [p |-> p,
          ix |-> IndexDoc(ix, [ZeroCoredump EXCEPT !.uid = p.core.uid, !.lang = p.core.lang,
                                                   !.analyzed = TRUE, !.analyzed_at = Now])]

\* (Variant: the results are written whatever happened before.)
indexResultsAnyway(p, ix, ixok) ==
    [p |-> p, ix |-> IndexDoc(ix, [p.core EXCEPT !.analyzed = TRUE, !.analyzed_at = Now])]

\* analyzeProcess.indexResults: the document is written back as analyzed,
\* unless the index fails.
indexResults(p, ix, ixok) ==
    IF p.err # NoErr THEN [p |-> p, ix |-> ix]
    ELSE IF ~ixok THEN [p |-> [p EXCEPT !.err = "indexing results"], ix |-> ix]
    ELSE [p |-> p, ix |-> IndexDoc(ix, [p.core EXCEPT !.analyzed = TRUE, !.analyzed_at = Now])]

----------------------------------------------------------------------------
\* The cleanup of one core (cleanupProcess): each stage does nothing once an
\* error is recorded.

\* What the cleanup reads of the Coredump it is given.
CleanupItem(c) == [uid |-> c.uid, executable_hash |-> c.executable_hash]

IdleCleanup == [pc |-> "idle", core |-> CleanupItem(ZeroCoredump), err |-> NoErr, removed |-> FALSE]

\* (removed is history: the index held the document when it was deleted.)

\* (Variant: the document is left in the index.)
cleanIndexNothing(p, ix) == [p |-> [p EXCEPT !.removed = p.core.uid \in DOMAIN ix], ix |-> ix]

cleanIndex(p, ix) ==
    IF p.err # NoErr THEN [p |-> p, ix |-> ix]
    ELSE [p |-> [p EXCEPT !.removed = p.core.uid \in DOMAIN ix],
          ix |-> IndexDelete(ix, p.core.uid)]

\* (Variant: the core file is left in the store.)
cleanStoreNothing(p, st) == [p |-> p, st |-> st]

cleanStore(p, st) ==
    IF p.err # NoErr THEN [p |-> p, st |-> st]
    ELSE LET r == DeleteCore(st, p.core.uid)
         IN [p |-> IF r.err # NoErr THEN [p EXCEPT !.err = "removing coredump file"] ELSE p,
             st |-> r.st]

canCleanExecutable(p, ix) ==
    IF p.err # NoErr THEN FALSE
    ELSE Cardinality(SearchExecutableHash(ix, p.core.executable_hash)) = 0

cleanExecutable(p, st) ==
    IF p.err # NoErr THEN [p |-> p, st |-> st]
    ELSE LET r == DeleteExecutable(st, p.core.executable_hash)
         IN [p |-> IF r.err # NoErr THEN [p EXCEPT !.err = "removing executable file"] ELSE p,
             st |-> r.st]

----------------------------------------------------------------------------
\* One run of the forwarder: the executable of the dump, its hash (the empty
\* string if the hashing failed), what the lookup returned, and whether the
\* executable is sent.
IdleForwarder ==
    [pc |-> "start", exe |-> <<>>, hash |-> NoHash, hashFailed |-> FALSE,
     lookup |-> "", sendExecutable |-> TRUE]

\* service.lookupExecutable of the indexer: 200 if the store holds the
\* executable, 404 if not.
lookupStatus(st, hash) == IF ExecutableExists(st, hash) THEN StatusOK ELSE StatusNotFound

\* service.lookupExecutable of the forwarder: found on 200, not found on
\* 404, not found and an error on a request that fails or another status.
lookupExecutable(status, fails) ==
    IF fails THEN [found |-> FALSE, err |-> "executing request"]
    ELSE IF status = StatusOK THEN [found |-> TRUE, err |-> NoErr]
    ELSE IF status = StatusNotFound THEN [found |-> FALSE, err |-> NoErr]
    ELSE [found |-> FALSE, err |-> "unexpected response"]

\* service.run of the forwarder, from the lookup: the executable is sent
\* unless it was found.
decide(f, res) ==
    [f EXCEPT !.pc = "post",
              !.lookup = IF res.err # NoErr THEN "error" ELSE IF res.found THEN "found" ELSE "missing",
              !.sendExecutable = ~res.found]

\* The request the forwarder posts: the header with the hash, and the
\* executable segment if it is sent (empty if the file cannot be read).
posted(f, readable) ==
    [hash |-> f.hash, incl |-> f.sendExecutable,
     exe |-> IF f.sendExecutable /\ readable THEN f.exe ELSE <<>>,
     links |-> <<>>, fault |-> NoFault]

----------------------------------------------------------------------------
\* The handler of analyzeCore or deleteCore (the requests of these two
\* endpoints are followed one after the other): the request, what Find
\* returned, the answer, and the number of sends on the queue.
IdleHandler ==
    [pc |-> "idle", kind |-> "", uid |-> 0, core |-> CleanupItem(ZeroCoredump),
     status |-> 0, body |-> "", sent |-> 0]

ErrNotFound == "not found"

\* Index.Find as the handlers use it: the document, ErrNotFound, or another
\* error of the index.
Find(ix, uid, fails) ==
    IF fails THEN [c |-> ZeroCoredump, err |-> "looking for coredump"]
    ELSE IF uid \notin DOMAIN ix THEN [c |-> ZeroCoredump, err |-> ErrNotFound]
    ELSE [c |-> ix[uid], err |-> NoErr]

\* A switch that takes ErrNotFound for a success, and sends the zero document
\* it got.
findSwitchSendsAnyway(h, found) ==
    IF found.err \in {NoErr, ErrNotFound} THEN [h EXCEPT !.pc = "send", !.core = CleanupItem(found.c)]
    ELSE [h EXCEPT !.pc = "done", !.status = StatusInternalServerError, !.body = found.err]

\* The switch of analyzeCore and deleteCore on the error of Find: the answer,
\* or the send on the queue that comes before it.
findSwitch(h, found) ==
    IF found.err = NoErr THEN [h EXCEPT !.pc = "send", !.core = CleanupItem(found.c)]
    ELSE IF found.err = ErrNotFound
         THEN [h EXCEPT !.pc = "done", !.status = StatusBadRequest, !.body = "unknown core"]
    ELSE [h EXCEPT !.pc = "done", !.status = StatusInternalServerError, !.body = found.err]

\* bleve.NewSearchRequest: the number of hits asked for when the request
\* sets no Size.
DefaultSize == 10

\* The documents a search for analyzed = false matches.
Unanalyzed(ix) == {u \in DOMAIN ix : ~ix[u].analyzed}

\* The pages of hits the search may answer: the request of FindUnanalyzed
\* sets no Size and no From, so that at most DefaultSize of the matches come
\* back (all have the same score: which ones is not determined).
SearchHits(ix) ==
    {h \in SUBSET Unanalyzed(ix) :
        Cardinality(h) = IF Cardinality(Unanalyzed(ix)) < DefaultSize
                         THEN Cardinality(Unanalyzed(ix)) ELSE DefaultSize}

\* BleveIndex.FindUnanalyzed: the uids of the hits, or the error of the search.
FindUnanalyzed(hits, fails) ==
    IF fails THEN [uids |-> {}, err |-> "searching for unanalyzed coredumps"]
    ELSE [uids |-> hits, err |-> NoErr]

\* The recovery goroutine: the uids it has still to send, those it sent, the
\* error it logged, and whether the context of the service is done.
IdleRecovery == [pc |-> "find", uids |-> {}, sent |-> {}, logged |-> NoErr, ctxDone |-> FALSE]

\* The recovery goroutine after FindUnanalyzed: it returns on an error and on
\* an empty result, and ranges over the uids otherwise.
recoveryFound(r, found) ==
    IF found.err # NoErr THEN [r EXCEPT !.pc = "done", !.logged = found.err]
    ELSE IF found.uids = {} THEN [r EXCEPT !.pc = "done"]
    ELSE [r EXCEPT !.pc = "send", !.uids = found.uids]

\* The loop of the recovery goroutine after one uid was sent.
recoverySent(r, uid) ==
    [r EXCEPT !.uids = @ \ {uid}, !.sent = @ \cup {uid},
              !.pc = IF r.uids = {uid} THEN "done" ELSE "send"]

----------------------------------------------------------------------------
\* Package elfx.  A string is the sequence of its bytes.

\* isAlphaNum: an ASCII letter, a digit or the underscore.
AlphaNum ==
    {"_", "0", "1", "2", "3", "4", "5", "6", "7", "8", "9", "a", "b", "c", "d", "e", "f", "g", "h", "i", "j", "k", "l", "m", "n", "o", "p", "q", "r", "s", "t", "u", "v", "w", "x", "y", "z", "A", "B", "C", "D", "E", "F", "G", "H", "I", "J", "K", "L", "M", "N", "O", "P", "Q", "R", "S", "T", "U", "V", "W", "X", "Y", "Z"}
isAlphaNum(c) == c \in AlphaNum

\* strings.Contains(s, "/") and filepath.IsAbs.
ContainsSlash(s) == \E i \in 1..Len(s) : s[i] = "/"
IsAbs(s) == s # <<>> /\ s[1] = "/"

\* The elements of a path between its slashes, the empty ones included.
RECURSIVE SplitSlash(_)
SplitSlash(s) ==
    IF ~ContainsSlash(s) THEN <<s>>
    ELSE LET k == CHOOSE i \in 1..Len(s) : s[i] = "/" /\ \A j \in 1..(i - 1) : s[j] # "/"
         IN <<SubSeq(s, 1, k - 1)>> \o SplitSlash(SubSeq(s, k + 1, Len(s)))

\* The elements joined by slashes.
RECURSIVE JoinSlash(_)
JoinSlash(elems) ==
    IF elems = <<>> THEN <<>>
    ELSE IF Len(elems) = 1 THEN elems[1]
    ELSE elems[1] \o <<"/">> \o JoinSlash(Tail(elems))

\* filepath.Clean on the elements of a path: the empty elements and "." are
\* dropped, ".." removes the element before it (at the root it is dropped).
RECURSIVE cleanElems(_, _, _)
cleanElems(elems, rooted, out) ==
    IF elems = <<>> THEN out
    ELSE LET e == Head(elems) IN
         IF e = <<>> \/ e = <<".">> THEN cleanElems(Tail(elems), rooted, out)
         ELSE IF e = <<".", ".">>
              THEN IF out # <<>> /\ out[Len(out)] # <<".", ".">>
                   THEN cleanElems(Tail(elems), rooted, SubSeq(out, 1, Len(out) - 1))
                   ELSE IF rooted THEN cleanElems(Tail(elems), rooted, out)
                   ELSE cleanElems(Tail(elems), rooted, Append(out, e))
         ELSE cleanElems(Tail(elems), rooted, Append(out, e))

\* filepath.Clean.
Clean(s) ==
    LET body == JoinSlash(cleanElems(SplitSlash(s), IsAbs(s), <<>>))
        path == IF IsAbs(s) THEN <<"/">> \o body ELSE body
    IN IF path = <<>> THEN <<".">> ELSE path

\* filepath.Join of two elements: the empty ones are ignored, the result is
\* cleaned.
Join(a, b) ==
    IF a = <<>> /\ b = <<>> THEN <<>>
    ELSE IF a = <<>> THEN Clean(b)
    ELSE IF b = <<>> THEN Clean(a)
    ELSE Clean(a \o <<"/">> \o b)

\* filepath.Dir: the path up to its last slash, cleaned.
Dir(s) ==
    IF ~ContainsSlash(s) THEN <<".">>
    ELSE LET k == CHOOSE i \in 1..Len(s) : s[i] = "/" /\ \A j \in (i + 1)..Len(s) : s[j] # "/"
         IN Clean(SubSeq(s, 1, k))

\* The names of the tokens and the values of $LIB.
ORIGIN == <<"O", "R", "I", "G", "I", "N">>
LIB == <<"L", "I", "B">>
PLATFORM == <<"P", "L", "A", "T", "F", "O", "R", "M">>
Lib64 == <<"l", "i", "b", "6", "4">>
Lib32 == <<"l", "i", "b">>
ELFCLASS32 == 1
ELFCLASS64 == 2

\* A string index out of range stops the program.
Panic == "panic: index out of range"

\* The functor of File.Expand: the value of a token, whether the name is one
\* of a token, and the error met (the platform comes from the auxiliary
\* vector, which may have no such entry: the empty platform stands for that).
expandToken(file, name) ==
    IF name = ORIGIN THEN [value |-> Dir(file.Path), ok |-> TRUE, err |-> NoErr]
    ELSE IF name = LIB
         THEN [value |-> IF file.Class = ELFCLASS64 THEN Lib64 ELSE Lib32, ok |-> TRUE, err |-> NoErr]
    ELSE IF name = PLATFORM
         THEN IF file.platform = <<>>
              THEN [value |-> <<>>, ok |-> FALSE, err |-> "missing platform entry in auxilliary vector"]
              ELSE [value |-> file.platform, ok |-> TRUE, err |-> NoErr]
    ELSE [value |-> <<>>, ok |-> FALSE, err |-> NoErr]

\* The end of the name that starts at j: the first byte from j on that is not
\* alphanumerical, or the end of the string.
RECURSIVE nameEnd(_, _)
nameEnd(s, j) == IF j <= Len(s) /\ isAlphaNum(s[j]) THEN nameEnd(s, j + 1) ELSE j

\* The loop of expand from byte i on (bytes are counted from 1), buf being
\* what is written so far.  The byte that ends a token is written without
\* being looked at, unless it is the brace that closes an opened one.
RECURSIVE expandFrom(_, _, _, _)
expandFrom(s, file, i, buf) ==
    IF i > Len(s) THEN [out |-> buf, err |-> NoErr]
    ELSE IF s[i] # "$" THEN expandFrom(s, file, i + 1, Append(buf, s[i]))
    ELSE IF i + 1 > Len(s) THEN [out |-> Append(buf, s[i]), err |-> NoErr]
    ELSE LET j == nameEnd(s, IF s[i + 1] = "{" THEN i + 2 ELSE i + 1)
             raw == SubSeq(s, i + 1, j - 1)
         IN IF raw = <<>> THEN [out |-> <<>>, err |-> Panic]
            ELSE LET name == IF raw[1] = "{" THEN Tail(raw) ELSE raw
                     t == expandToken(file, name)
                     written == buf \o (IF t.ok THEN t.value ELSE SubSeq(s, i, j - 1))
                 IN IF t.err # NoErr THEN [out |-> <<>>, err |-> t.err]
                    ELSE expandFrom(s, file, j + 1,
                                    IF j <= Len(s) /\ (s[i + 1] # "{" \/ s[j] # "}")
                                    THEN Append(written, s[j]) ELSE written)

\* File.Expand.
Expand(file, path) == expandFrom(path, file, 1, <<>>)

\* The files that are opened: the executable of a dump, of either class, on
\* a machine whose auxiliary vector names the platform or not.
ExePath == <<"/", "o", "/", "e">>
ElfFiles == [Path : {ExePath}, Class : {ELFCLASS32, ELFCLASS64}, platform : {<<>>, <<"x", "8", "6">>}]

\* The parts of the paths that are expanded: a token, with braces or without,
\* or a text that no token name can run into.
TokenParts == [name : {ORIGIN, LIB, PLATFORM}, braced : BOOLEAN, text : {<<>>}]
TextParts == [name : {<<>>}, braced : {FALSE}, text : {<<"/">>, <<"/", "a">>}]
PartLists == UNION {[1..n -> TokenParts \cup TextParts] : n \in 1..MaxParts}

\* A part as it is written in the path, and the path of a list of parts.
Written(part) ==
    IF part.name = <<>> THEN part.text
    ELSE IF part.braced THEN <<"$", "{">> \o part.name \o <<"}">>
    ELSE <<"$">> \o part.name
RECURSIVE Flat(_)
Flat(parts) == IF parts = <<>> THEN <<>> ELSE Written(Head(parts)) \o Flat(Tail(parts))

\* The calls of File.Expand.
ExpandCalls ==
    {[op |-> "Expand", file |-> f, parts |-> ps, path |-> Flat(ps),
      done |-> FALSE, out |-> <<>>, err |-> NoErr] : f \in ElfFiles, ps \in PartLists}

\* The pieces of the strings that hold no known token: a token of an unknown
\* name, with braces or without, a lone '$', and text.
PlainPieces == {<<"$", "F">>, <<"$", "{", "F", "}">>, <<"$">>, <<"/">>, <<"/", "a">>}
PlainLists == UNION {[1..n -> PlainPieces] : n \in 1..MaxParts}
RECURSIVE Concat(_)
Concat(pieces) == IF pieces = <<>> THEN <<>> ELSE Head(pieces) \o Concat(Tail(pieces))

\* The calls of expand, through File.Expand, on strings without a known token.
PlainCalls ==
    {[op |-> "expand", file |-> f, pieces |-> ps, path |-> Concat(ps),
      done |-> FALSE, out |-> <<>>, err |-> NoErr] : f \in ElfFiles, ps \in PlainLists}

\* The working directory of the forwarder, against which os.Stat takes a
\* relative path.
Cwd == <<"/", "w">>

\* os.Stat on a file system given by the files it holds and the paths whose
\* stat fails for another reason than a missing file.
Stat(fs, path) ==
    LET abs == IF IsAbs(path) THEN Clean(path) ELSE Clean(Cwd \o <<"/">> \o path)
    IN IF abs \in fs.denied THEN "error"
       ELSE IF abs \in fs.files THEN "ok"
       ELSE "notexist"

\* The answer of ResolveImportedLibrary for a path that was stat'ed.
statted(fs, path) ==
    IF Stat(fs, path) = "notexist" THEN [path |-> path, ok |-> FALSE, err |-> NoErr]
    ELSE IF Stat(fs, path) = "error" THEN [path |-> path, ok |-> FALSE, err |-> "stat"]
    ELSE [path |-> path, ok |-> TRUE, err |-> NoErr]

\* The two loops of ResolveImportedLibrary over the directories of the lists,
\* one after the other: the first directory that cannot be expanded or whose
\* file is there (or cannot be stat'ed) ends the search.
RECURSIVE searchDirs(_, _, _, _)
searchDirs(file, fs, library, dirs) ==
    IF dirs = <<>> THEN [path |-> library, ok |-> FALSE, err |-> NoErr]
    ELSE LET dir == Expand(file, Head(dirs))
             path == Join(dir.out, library)
         IN IF dir.err # NoErr
            THEN [path |-> library, ok |-> FALSE, err |-> "expanding path for library"]
            ELSE IF Stat(fs, path) = "notexist" THEN searchDirs(file, fs, library, Tail(dirs))
            ELSE statted(fs, path)

\* The lists in an order in which LD_LIBRARY_PATH comes last.
searchOrderEnvLast(rpath, runpath, env) ==
    rpath \o runpath \o env.DefaultDirs \o env.LibraryPathDirs

\* The lists in the order of the loop of ResolveImportedLibrary.
searchOrder(rpath, runpath, env) ==
    rpath \o env.LibraryPathDirs \o runpath \o env.DefaultDirs

\* A resolution that searches the lists for every name.
ResolveImportedLibrarySearching(file, env, fs, library) ==
    searchDirs(file, fs, library,
               searchOrder(IF file.runpath = <<>> THEN file.rpath ELSE <<>>, file.runpath, env))

\* File.ResolveImportedLibrary.  file.dyn tells which of the reads of the
\* dynamic section fails, if one does; DT_RPATH is read only if there is no
\* DT_RUNPATH.
ResolveImportedLibrary(file, env, fs, library) ==
    LET runpath == file.runpath
        rpath == IF Len(runpath) = 0 THEN file.rpath ELSE <<>>
    IN IF file.dyn = "DT_RUNPATH" \/ (Len(runpath) = 0 /\ file.dyn = "DT_RPATH")
       THEN [path |-> library, ok |-> FALSE, err |-> file.dyn]
       ELSE IF ContainsSlash(library)
            THEN IF IsAbs(library) THEN statted(fs, library)
                 ELSE statted(fs, Join(Dir(file.Path), library))
       ELSE searchDirs(file, fs, library, searchOrder(rpath, runpath, env))

\* The directories of the lists, the names of the libraries, and the files
\* that may be there.
DirA == <<"/", "a">>
DirB == <<"/", "b">>
DirC == <<"/", "c">>
DirD == <<"/", "d">>
DirOrigin == <<"$", "O", "R", "I", "G", "I", "N">>
DirPlatform == <<"/", "$", "P", "L", "A", "T", "F", "O", "R", "M">>
DirDot == <<".">>
LibName == <<"x">>
LibRelative == <<".", "/", "x">>
LibAbsolute == <<"/", "a", "/", "x">>
LibFiles == {<<"/", "a", "/", "x">>, <<"/", "b", "/", "x">>, <<"/", "c", "/", "x">>, <<"/", "d", "/", "x">>, <<"/", "o", "/", "x">>, <<"/", "x", "8", "6", "/", "x">>, <<"/", "w", "/", "x">>}

\* The executables whose libraries are resolved, and the environment.
\* (The platform is known where a directory asks for it; a read of the
\* dynamic section fails for the files that have a DT_RPATH of one entry.)
DynFiles ==
    {f \in [Path : {ExePath}, Class : {ELFCLASS64}, platform : {<<>>, <<"x", "8", "6">>},
            rpath : {<<>>, <<DirA>>, <<DirA, DirB>>},
            runpath : {<<>>, <<DirC>>, <<DirOrigin>>, <<DirPlatform>>},
            dyn : {"", "DT_RUNPATH", "DT_RPATH"}] :
        /\ f.platform # <<>> => f.runpath = <<DirPlatform>>
        /\ f.dyn # "" => f.rpath = <<DirA>> /\ f.platform = <<>>}
Envs == [LibraryPathDirs : {<<>>, <<DirB>>, <<DirDot>>}, DefaultDirs : {<<DirD>>}]
\* (At most MaxFiles of the files are there.)
FileSystems ==
    [files : {fl \in SUBSET LibFiles : Cardinality(fl) <= MaxFiles},
     denied : {{}, {<<"/", "a", "/", "x">>}}]

\* The calls of File.ResolveImportedLibrary.
ResolveCalls ==
    {[op |-> "Resolve", file |-> f, env |-> e, fs |-> fs, library |-> l,
      done |-> FALSE, path |-> <<>>, ok |-> FALSE, err |-> NoErr] :
        f \in DynFiles, e \in Envs, fs \in FileSystems, l \in {LibName, LibRelative, LibAbsolute}}

\* The forwarder resolves the links of an executable.  An ELF file is given
\* by whether it can be opened, whether its imported libraries can be read,
\* and their names.
LibOther == <<"y">>
Elfs ==
    {[open |-> TRUE, parse |-> TRUE, libs |-> l] : l \in {<<>>, <<LibName>>, <<LibOther>>}}
    \cup {[open |-> FALSE, parse |-> TRUE, libs |-> <<>>], [open |-> TRUE, parse |-> FALSE, libs |-> <<>>]}
LinkedFiles == {<<"/", "b", "/", "x">>, <<"/", "b", "/", "y">>, <<"/", "d", "/", "y">>}

\* The Link of a library that was resolved.
linkOf(library, r) == [Name |-> library, Path |-> r.path, Found |-> r.ok, Error |-> r.err]

\* The libraries a file imports that are not known yet, each once.
RECURSIVE newParents(_, _)
newParents(parents, known) ==
    IF parents = <<>> THEN <<>>
    ELSE IF Head(parents) \in known THEN newParents(Tail(parents), known)
    ELSE <<Head(parents)>> \o newParents(Tail(parents), known \cup {Head(parents)})

\* The names of a list.
Names(libraries) == {libraries[k] : k \in 1..Len(libraries)}

\* The loop of resolveLinks: the first library of the stack is resolved from
\* the executable and gets its Link; if it is found its file is opened and
\* the libraries it imports that are not known yet go on the stack.  (taken
\* is history: the names taken from the stack.)
RECURSIVE resolveLoop(_, _, _, _, _, _, _, _)
RECURSIVE resolved(_, _, _, _, _, _, _, _, _)
resolved(file, env, fs, elfs, libraries, known, links, taken, r) ==
    IF ~r.ok \/ r.err # NoErr
    THEN resolveLoop(file, env, fs, elfs, Tail(libraries), known, links, taken)
    ELSE IF ~elfs[r.path].open
         THEN [links |-> <<>>, err |-> "opening shared library", taken |-> taken]
    ELSE IF ~elfs[r.path].parse
         THEN [links |-> <<>>, err |-> "parsing parent imported libraries", taken |-> taken]
    ELSE resolveLoop(file, env, fs, elfs,
                     Tail(libraries) \o newParents(elfs[r.path].libs, known),
                     known \cup Names(elfs[r.path].libs), links, taken)

resolveLoop(file, env, fs, elfs, libraries, known, links, taken) ==
    IF libraries = <<>> THEN [links |-> links, err |-> NoErr, taken |-> taken]
    ELSE resolved(file, env, fs, elfs, libraries, known,
                  Append(links, linkOf(Head(libraries),
                                       ResolveImportedLibrary(file, env, fs, Head(libraries)))),
                  Append(taken, Head(libraries)),
                  ResolveImportedLibrary(file, env, fs, Head(libraries)))

\* service.resolveLinks: elf is the executable, elfs the files of the
\* libraries by their path.
resolveLinks(file, elf, env, fs, elfs) ==
    IF ~elf.open THEN [links |-> <<>>, err |-> "opening executable", taken |-> <<>>]
    ELSE IF ~elf.parse THEN [links |-> <<>>, err |-> "parsing imported libraries", taken |-> <<>>]
    ELSE resolveLoop(file, env, fs, elfs, elf.libs, Names(elf.libs), <<>>, <<>>)

\* The calls of resolveLinks: an executable without DT_RPATH and DT_RUNPATH,
\* whose dynamic section is read or not, and libraries under the directory of
\* LD_LIBRARY_PATH and under the default one.  (ImportedLibraries gives every
\* DT_NEEDED entry of the file, so a name may be there twice.)
LinkCalls ==
    UNION {
        {[op |-> "resolveLinks",
          file |-> [Path |-> ExePath, Class |-> ELFCLASS64, platform |-> <<>>,
                    rpath |-> <<>>, runpath |-> <<>>, dyn |-> d],
          elf |-> e, env |-> [LibraryPathDirs |-> <<DirB>>, DefaultDirs |-> <<DirD>>],
          fs |-> [files |-> fl, denied |-> {}], elfs |-> es,
          done |-> FALSE, links |-> <<>>, err |-> NoErr, taken |-> <<>>] :
            d \in {"", "DT_RUNPATH"},
            e \in Elfs \cup {[open |-> TRUE, parse |-> TRUE, libs |-> <<LibName, LibOther>>],
                              [open |-> TRUE, parse |-> TRUE, libs |-> <<LibName, LibName>>]},
            es \in {g \in [LinkedFiles -> Elfs] :
                      \A q \in LinkedFiles \ fl :
                          g[q] = [open |-> TRUE, parse |-> TRUE, libs |-> <<>>]}} :
        fl \in SUBSET LinkedFiles}

\* The calls of resolveLinks on an executable whose DT_RUNPATH is $ORIGIN and
\* that imports one library, which may import another one; the libraries may
\* be in the directory of the executable too.
OriginFiles == {<<"/", "b", "/", "x">>, <<"/", "d", "/", "x">>, <<"/", "b", "/", "y">>, <<"/", "d", "/", "y">>, <<"/", "o", "/", "y">>}
OriginCalls ==
    {[op |-> "resolveLinks",
      file |-> [Path |-> ExePath, Class |-> ELFCLASS64, platform |-> <<>>,
                rpath |-> <<>>, runpath |-> <<DirOrigin>>, dyn |-> ""],
      elf |-> [open |-> TRUE, parse |-> TRUE, libs |-> <<LibName>>],
      env |-> [LibraryPathDirs |-> <<DirB>>, DefaultDirs |-> <<DirD>>],
      fs |-> [files |-> fl, denied |-> {}],
      elfs |-> [q \in OriginFiles |->
                  [open |-> TRUE, parse |-> TRUE,
                   libs |-> IF q \in {<<"/", "b", "/", "x">>, <<"/", "d", "/", "x">>} THEN l ELSE <<>>]],
      done |-> FALSE, links |-> <<>>, err |-> NoErr, taken |-> <<>>] :
        l \in {<<>>, <<LibOther>>}, fl \in SUBSET OriginFiles}

\* No call of package elfx.
NoCall == [op |-> "none"]

----------------------------------------------------------------------------
\* Package conf.  A string is the sequence of its bytes.

\* strings.TrimSpace, strings.TrimLeft(s, "-") and strings.HasPrefix(s, "#").
RECURSIVE TrimLeftOf(_, _)
TrimLeftOf(s, c) == IF s # <<>> /\ Head(s) = c THEN TrimLeftOf(Tail(s), c) ELSE s
RECURSIVE TrimRightOf(_, _)
TrimRightOf(s, c) ==
    IF s # <<>> /\ s[Len(s)] = c THEN TrimRightOf(SubSeq(s, 1, Len(s) - 1), c) ELSE s
TrimSpace(s) == TrimRightOf(TrimLeftOf(s, " "), " ")
IsComment(s) == s # <<>> /\ Head(s) = "#"

\* strings.SplitN(s, sep, 2): the string, or what is before and after the
\* first separator.
SplitN2(s, sep) ==
    IF \A i \in 1..Len(s) : s[i] # sep THEN <<s>>
    ELSE LET k == CHOOSE i \in 1..Len(s) : s[i] = sep /\ \A j \in 1..(i - 1) : s[j] # sep
         IN <<SubSeq(s, 1, k - 1), SubSeq(s, k + 1, Len(s))>>

\* strconv.Unquote on a string that starts with a double quote and holds no
\* backslash: what is between the quotes, or an error if the string does not
\* end with the only other quote.
Unquote(s) ==
    IF Len(s) >= 2 /\ s[Len(s)] = "\"" /\ \A i \in 2..(Len(s) - 1) : s[i] # "\""
    THEN [val |-> SubSeq(s, 2, Len(s) - 1), err |-> NoErr]
    ELSE [val |-> <<>>, err |-> "invalid syntax"]

\* The flags of the set: two strings, one of them the path of the
\* configuration file, and a boolean; their defaults.
FlagA == <<"a">>
FlagB == <<"b">>
FlagC == <<"c">>
ConfDefault == <<"p">>
ConfOther == <<"q">>
BoolFlags == {FlagB}
True == <<"t", "r", "u", "e">>
False == <<"f", "a", "l", "s", "e">>
FlagDefaults == (FlagA :> <<"d">>) @@ (FlagB :> False) @@ (FlagC :> ConfDefault)

\* strconv.ParseBool, as the boolean flags use it.
ParseBool(s) ==
    IF s \in {<<"1">>, <<"t">>, <<"T">>, True, <<"T", "R", "U", "E">>, <<"T", "r", "u", "e">>} THEN [val |-> True, err |-> NoErr]
    ELSE IF s \in {<<"0">>, <<"f">>, <<"F">>, False, <<"F", "A", "L", "S", "E">>, <<"F", "a", "l", "s", "e">>} THEN [val |-> False, err |-> NoErr]
    ELSE [val |-> <<>>, err |-> "parse error"]

\* flag.FlagSet.Set: the flag must exist, and a boolean one gets a boolean.
FlagSetSet(flags, key, val) ==
    IF key \notin DOMAIN flags THEN [flags |-> flags, err |-> "no such flag"]
    ELSE IF key \in BoolFlags
         THEN IF ParseBool(val).err # NoErr THEN [flags |-> flags, err |-> ParseBool(val).err]
              ELSE [flags |-> [flags EXCEPT ![key] = ParseBool(val).val], err |-> NoErr]
    ELSE [flags |-> [flags EXCEPT ![key] = val], err |-> NoErr]

\* flag.FlagSet.Parse on the flags of a command line, and the names Visit
\* gives after it.
RECURSIVE FlagSetParse(_, _)
FlagSetParse(flags, args) ==
    IF args = <<>> THEN flags
    ELSE FlagSetParse(FlagSetSet(flags, Head(args).name, Head(args).value).flags, Tail(args))
Visited(args) == {args[k].name : k \in 1..Len(args)}

\* A line of the file with a key and a value, after the key was trimmed: the
\* line is skipped if the command line set the flag; the value is trimmed,
\* unquoted if it starts with a double quote, and set.
setFromLine(st, set, key, val) ==
    IF key \in set THEN st
    ELSE IF val # <<>> /\ Head(val) = "\"" /\ Unquote(val).err # NoErr
         THEN [st EXCEPT !.err = "unquoting value"]
    ELSE IF FlagSetSet(st.flags, key, IF val # <<>> /\ Head(val) = "\"" THEN Unquote(val).val ELSE val).err # NoErr
         THEN [st EXCEPT !.err = "setting flag"]
    ELSE [st EXCEPT !.flags =
             FlagSetSet(st.flags, key, IF val # <<>> /\ Head(val) = "\"" THEN Unquote(val).val ELSE val).flags]

\* A line that sets the flag whatever the command line did.
parseLineOverriding(st, set, line) ==
    IF st.err # NoErr \/ TrimSpace(line) = <<>> \/ IsComment(TrimSpace(line)) THEN st
    ELSE setFromLine(st, {},
                     TrimSpace(SplitN2(TrimLeftOf(TrimSpace(line), "-"), "=")[1]),
                     IF Len(SplitN2(TrimLeftOf(TrimSpace(line), "-"), "=")) = 1 THEN True
                     ELSE TrimSpace(SplitN2(TrimLeftOf(TrimSpace(line), "-"), "=")[2]))

\* One turn of the loop of parse over the lines of the file: empty lines and
\* comments are ignored, the dashes at the start are dropped, a line without
\* '=' has the value true.  An error ends the loop.
parseLine(st, set, line) ==
    IF st.err # NoErr \/ TrimSpace(line) = <<>> \/ IsComment(TrimSpace(line)) THEN st
    ELSE setFromLine(st, set,
                     TrimSpace(SplitN2(TrimLeftOf(TrimSpace(line), "-"), "=")[1]),
                     IF Len(SplitN2(TrimLeftOf(TrimSpace(line), "-"), "=")) = 1 THEN True
                     ELSE TrimSpace(SplitN2(TrimLeftOf(TrimSpace(line), "-"), "=")[2]))

RECURSIVE parseLines(_, _, _)
parseLines(st, set, lines) ==
    IF lines = <<>> THEN st ELSE parseLines(parseLine(st, set, Head(lines)), set, Tail(lines))

\* parse after the command line was parsed: the file named by the flag conf
\* is read, unless there is no such flag or file.  disk gives the paths of
\* the files that exist and the lines they hold.
parseFile(flags, set, conf, disk) ==
    IF conf = <<>> THEN [flags |-> flags, err |-> NoErr]
    ELSE IF conf \notin DOMAIN flags THEN [flags |-> flags, err |-> "configuration flag not found"]
    ELSE IF flags[conf] \notin disk.paths
         THEN IF conf \notin set THEN [flags |-> flags, err |-> NoErr]
              ELSE [flags |-> flags, err |-> "opening configuration file"]
    ELSE parseLines([flags |-> flags, err |-> NoErr], set, disk.lines)

\* parse.
parse(args, conf, disk) == parseFile(FlagSetParse(FlagDefaults, args), Visited(args), conf, disk)

\* The lines a configuration file may hold, each with the flag it names and
\* the value it gives: plain, with spaces, with dashes and quotes, without a
\* value, a comment, an empty line, an unknown flag, a quote that is not
\* closed.
ConfLines ==
    {[key |-> FlagA, val |-> <<"f">>, text |-> <<"a", "=", "f">>],
     [key |-> FlagA, val |-> <<"g">>, text |-> <<" ", "a", " ", "=", " ", "g", " ">>],
     [key |-> FlagA, val |-> <<"f">>, text |-> <<"-", "-", "a", "=", "\"", "f", "\"">>],
     [key |-> FlagB, val |-> True, text |-> <<"b">>],
     [key |-> FlagB, val |-> False, text |-> <<"b", "=", "f", "a", "l", "s", "e">>],
     [key |-> FlagC, val |-> ConfOther, text |-> <<"c", "=", "q">>],
     [key |-> <<>>, val |-> <<>>, text |-> <<"#", "a", "=", "g">>],
     [key |-> <<>>, val |-> <<>>, text |-> <<" ">>],
     [key |-> <<"z">>, val |-> <<"1">>, text |-> <<"z", "=", "1">>],
     [key |-> FlagA, val |-> <<"f">>, text |-> <<"a", "=", "\"", "f">>]}
ConfFiles == UNION {[1..n -> ConfLines] : n \in 0..MaxLines}

\* The flags a command line may give.
ArgFlags ==
    {[name |-> FlagA, value |-> <<"h">>], [name |-> FlagB, value |-> True],
     [name |-> FlagC, value |-> ConfOther]}
ArgLists == UNION {[1..n -> ArgFlags] : n \in 0..MaxArgs}

\* The calls of parse: the command line, the name of the configuration flag
\* (none, the flag, or a name that is not a flag), the paths at which the
\* file exists, and the file.
ParseCalls ==
    {[op |-> "parse", args |-> a, conf |-> c, paths |-> ps, file |-> f,
      done |-> FALSE, flags |-> FlagDefaults, err |-> NoErr] :
        a \in ArgLists, c \in {<<>>, FlagC, <<"x">>},
        ps \in {{}, {ConfDefault}, {ConfDefault, ConfOther}}, f \in ConfFiles}

\* strings.Split(s, sep).
RECURSIVE Split(_, _)
Split(s, sep) ==
    IF Len(SplitN2(s, sep)) = 1 THEN <<s>>
    ELSE <<SplitN2(s, sep)[1]>> \o Split(SplitN2(s, sep)[2], sep)

\* The body of the loop of mapFlag.Set: a value without '=' is a key with an
\* empty value.
setValue(m, chunks) ==
    IF Len(chunks) = 1 THEN Put(m, chunks[1], <<>>) ELSE Put(m, chunks[1], chunks[2])

RECURSIVE setValues(_, _)
setValues(m, values) ==
    IF values = <<>> THEN m ELSE setValues(setValue(m, SplitN2(Head(values), "=")), Tail(values))

\* A Set that starts from an empty map.
mapFlagSetAfresh(m, raw) == setValues(<<>>, Split(raw, ";"))

\* mapFlag.Set.
mapFlagSet(m, raw) == setValues(m, Split(raw, ";"))

\* The pieces of the raw values: pairs, one with a second '=', a key alone
\* and the empty piece, each with the key and the value it stands for; a raw
\* value is one piece or two of them around a ';'.
MapPieces ==
    {[key |-> <<"a">>, val |-> <<"1">>, eq |-> TRUE, text |-> <<"a", "=", "1">>],
     [key |-> <<"a">>, val |-> <<"2">>, eq |-> TRUE, text |-> <<"a", "=", "2">>],
     [key |-> <<"b">>, val |-> <<"1">>, eq |-> TRUE, text |-> <<"b", "=", "1">>],
     [key |-> <<"a">>, val |-> <<"b", "=", "1">>, eq |-> TRUE, text |-> <<"a", "=", "b", "=", "1">>],
     [key |-> <<"a">>, val |-> <<>>, eq |-> FALSE, text |-> <<"a">>],
     [key |-> <<>>, val |-> <<>>, eq |-> FALSE, text |-> <<>>]}
RawValues == {<<x>> : x \in MapPieces} \cup {<<x, y>> : x, y \in MapPieces}
RawText(raw) == IF Len(raw) = 1 THEN raw[1].text ELSE raw[1].text \o <<";">> \o raw[Len(raw)].text

\* The map flags on which Set is to be called with a list of raw values.
MapCalls ==
    {[op |-> "MapFlag", raws |-> rs, m |-> <<>>, applied |-> <<>>] :
        rs \in UNION {[1..n -> RawValues] : n \in 1..MaxSets}}

\* The text of the lines of a file.
Texts(file) == [k \in 1..Len(file) |-> file[k].text]

----------------------------------------------------------------------------
Init ==
    /\ index = <<>>
    /\ store = [cores |-> {}, executables |-> <<>>, links |-> {}]
    /\ nextUid = 1
    /\ up = [r \in Slots |-> IdleRequest]
    /\ an = IdleAnalysis
    /\ cl = IdleCleanup
    /\ delSending = EmptyBag
    /\ delIssued = 0
    /\ deleted = {}
    /\ hd = IdleHandler
    /\ fw = [r \in Slots |-> IdleForwarder]
    /\ rc = IdleRecovery
    /\ ex = NoCall

\* The document of a core that was uploaded with its executable before the
\* service was started, analyzed or not.
Stored(uid, file, analyzed) ==
    [ZeroCoredump EXCEPT !.uid = uid,
                         !.executable_hash = hashExecutable(file),
                         !.executable_size = Len(file),
                         !.analyzed = analyzed,
                         !.analyzed_at = IF analyzed THEN Now ELSE 0,
                         !.lang = IF ~analyzed THEN ""
                                  ELSE IF HasGoBuildInfo(file) THEN LangGo ELSE LangC]

\* The service is started on the index and the store its earlier runs left:
\* n cores with their documents and executables.
Restarted(n, files, done) ==
    /\ index = [u \in 1..n |-> Stored(u, files[u], done[u])]
    /\ store = [cores |-> 1..n,
                executables |-> [h \in {hashExecutable(files[u]) : u \in 1..n} |->
                                    CHOOSE f \in ExeFiles : hashExecutable(f) = h],
                links |-> {}]
    /\ nextUid = n + 1
    /\ up = [r \in Slots |-> IdleRequest]
    /\ an = IdleAnalysis
    /\ cl = IdleCleanup
    /\ delSending = EmptyBag
    /\ delIssued = 0
    /\ deleted = {}
    /\ hd = IdleHandler
    /\ fw = [r \in Slots |-> IdleForwarder]
    /\ rc = IdleRecovery
    /\ ex = NoCall

InitStored ==
    \E n \in 0..MaxUploads :
        \E files \in [1..n -> ExeFiles], done \in [1..n -> BOOLEAN] : Restarted(n, files, done)

\* service.indexCore up to the executable: a new uid, the header, the core
\* file, and the executable file created or looked up.  The steps before the
\* executable touch nothing another goroutine can see (the uid is new).
Begin(r, in) ==
    /\ up[r].pc = "idle"
    /\ \A q \in Slots : q < r => up[q].pc # "idle"
    /\ LET c == receive(init(up[r], nextUid, in), store)
       IN /\ up' = [up EXCEPT ![r] = [c.rq EXCEPT !.pc = IF c.rq.copying THEN "copy" ELSE "index"]]
          /\ store' = c.st
    /\ nextUid' = nextUid + 1
    /\ UNCHANGED <<index, an, cl, delSending, delIssued, deleted, side>>

\* (The executables are interchangeable: the first upload is one of <<1, 2>>.)
UploadBegin(r) ==
    \E in \in ForwarderInputs : (r = 1 => in.exe = <<1, 2>>) /\ Begin(r, in)

UploadBeginAny(r) ==
    \E in \in AnyInputs : Begin(r, in)

\* service.indexCore: the executable segment is streamed in its file.
UploadCopy(r) ==
    /\ up[r].pc = "copy"
    /\ LET b == readExecutableCopy(up[r], store)
       IN /\ up' = [up EXCEPT ![r] = [b.rq EXCEPT !.pc = "index"]]
          /\ store' = b.st
    /\ UNCHANGED <<index, nextUid, an, cl, delSending, delIssued, deleted, side>>

\* service.indexCore: the document is indexed, the body closed, and an error
\* answered with 500.
UploadIndex(r) ==
    /\ up[r].pc = "index"
    /\ LET b == indexCore(up[r], index)
       IN /\ index' = b.ix
          /\ up' = [up EXCEPT ![r] =
                IF b.rq.err # NoErr
                THEN [b.rq EXCEPT !.pc = "done", !.status = StatusInternalServerError, !.body = b.rq.err]
                ELSE [b.rq EXCEPT !.pc = "send"]]
    /\ UNCHANGED <<store, nextUid, an, cl, delSending, delIssued, deleted, side>>

\* (Variant: the queue takes an item whatever the worker does.)
queueTakesAlways(p) == TRUE

\* A send on the analysis queue completes when the worker receives: the queue
\* has no buffer and the worker receives between two analyses only.
queueTakes(p) == p.pc = "idle"

\* service.indexCore: the send on the analysis queue, received by the idle
\* worker (the queue has no buffer), then the 200.
UploadEnqueue(r) ==
    /\ up[r].pc = "send"
    /\ queueTakes(an)
    /\ an' = [IdleAnalysis EXCEPT !.pc = "init", !.uid = up[r].coredump.uid]
    /\ up' = [up EXCEPT ![r] = [@ EXCEPT !.pc = "done", !.status = StatusOK, !.log = Append(@, "enqueue")]]
    /\ UNCHANGED <<index, store, nextUid, cl, delSending, delIssued, deleted, side>>

\* service.analyze: init.
AnalyzeInit ==
    /\ an.pc = "init"
    /\ an' = [analyzeInit(an, index, store) EXCEPT !.pc = "run"]
    /\ UNCHANGED <<index, store, nextUid, up, cl, delSending, delIssued, deleted, side>>

\* service.analyze after init: the language and the trace (the debugger may
\* fail), the write of the results, the files closed.
AnalyzeFinish ==
    /\ an.pc = "run"
    /\ \E ok \in BOOLEAN : index' = indexResults(analyzeRun(an, store, ok), index, TRUE).ix
    /\ an' = IdleAnalysis
    /\ UNCHANGED <<store, nextUid, up, cl, delSending, delIssued, deleted, side>>

\* service.run of the forwarder: the executable is hashed; if that fails the
\* lookup is skipped and the executable is to be sent.
ForwarderHash(r) ==
    /\ fw[r].pc = "start"
    /\ \A q \in Slots : q < r => fw[q].pc # "start"
    /\ \E f \in ExeFiles, fails \in BOOLEAN :
        fw' = [fw EXCEPT ![r] =
                 IF fails
                 THEN [IdleForwarder EXCEPT !.pc = "post", !.exe = f, !.hashFailed = TRUE]
                 ELSE [IdleForwarder EXCEPT !.pc = "lookup", !.exe = f, !.hash = hashExecutable(f)]]
    /\ UNCHANGED <<index, store, nextUid, up, an, cl, delSending, delIssued, deleted, hd, more>>

\* service.run of the forwarder: HEAD /executables/<hash>.
ForwarderLookup(r) ==
    /\ fw[r].pc = "lookup"
    /\ \E fails \in BOOLEAN :
        fw' = [fw EXCEPT ![r] = decide(@, lookupExecutable(lookupStatus(store, fw[r].hash), fails))]
    /\ UNCHANGED <<index, store, nextUid, up, an, cl, delSending, delIssued, deleted, hd, more>>

\* service.run of the forwarder: POST /cores, received by service.indexCore.
\* An executable that could not be hashed may not be readable either.
ForwarderPost(r) ==
    /\ fw[r].pc = "post"
    /\ up[r].pc = "idle"
    /\ \E readable \in BOOLEAN :
        /\ (~readable => fw[r].hashFailed)
        /\ LET c == receive(init(up[r], nextUid, posted(fw[r], readable)), store)
           IN /\ up' = [up EXCEPT ![r] = [c.rq EXCEPT !.pc = IF c.rq.copying THEN "copy" ELSE "index"]]
              /\ store' = c.st
    /\ nextUid' = nextUid + 1
    /\ fw' = [fw EXCEPT ![r] = [@ EXCEPT !.pc = "posted"]]
    /\ UNCHANGED <<index, an, cl, delSending, delIssued, deleted, hd, more>>

\* service.analyze, detectLanguage and extractStackTrace.
AnalyzeRun ==
    /\ an.pc = "run"
    /\ \E ok \in BOOLEAN : an' = [analyzeRun(an, store, ok) EXCEPT !.pc = "index"]
    /\ UNCHANGED <<index, store, nextUid, up, cl, delSending, delIssued, deleted, side>>

\* service.analyze, indexResults, cleanup and the log of the error.
AnalyzeIndex ==
    /\ an.pc = "index"
    /\ \E ixok \in BOOLEAN :
        LET b == indexResults(an, index, ixok)
        IN /\ index' = b.ix
           /\ an' = [IdleAnalysis EXCEPT !.logged = b.p.err]
    /\ UNCHANGED <<store, nextUid, up, cl, delSending, delIssued, deleted, side>>

\* service.analyzeCore: Find and the switch on its error.
AnalyzeCoreFind ==
    /\ hd.pc \in {"idle", "done"}
    /\ \E uid \in 1..MaxUploads, fails \in BOOLEAN :
        hd' = findSwitch([IdleHandler EXCEPT !.kind = "analyze", !.uid = uid],
                         Find(index, uid, fails))
    /\ UNCHANGED <<index, store, nextUid, up, an, cl, delSending, delIssued, deleted, fw, more>>

\* service.analyzeCore: the send on the analysis queue, received by the idle
\* worker, then the 202.
AnalyzeCoreSend ==
    /\ hd.pc = "send" /\ hd.kind = "analyze"
    /\ an.pc = "idle"
    /\ an' = [IdleAnalysis EXCEPT !.pc = "init", !.uid = hd.uid]
    /\ hd' = [hd EXCEPT !.pc = "done", !.status = StatusAccepted, !.sent = @ + 1]
    /\ UNCHANGED <<index, store, nextUid, up, cl, delSending, delIssued, deleted, fw, more>>

\* service.deleteCore: Find and the switch on its error.
DeleteCoreFind ==
    /\ hd.pc \in {"idle", "done"}
    /\ \E uid \in 1..MaxUploads, fails \in BOOLEAN :
        hd' = findSwitch([IdleHandler EXCEPT !.kind = "delete", !.uid = uid],
                         Find(index, uid, fails))
    /\ UNCHANGED <<index, store, nextUid, up, an, cl, delSending, delIssued, deleted, fw, more>>

\* service.deleteCore: the send on the cleanup queue, received by the idle
\* worker, then the 200.
DeleteCoreSend ==
    /\ hd.pc = "send" /\ hd.kind = "delete"
    /\ cl.pc = "idle"
    /\ cl' = [IdleCleanup EXCEPT !.pc = "cleanIndex", !.core = hd.core]
    /\ deleted' = deleted \cup {hd.uid}
    /\ hd' = [hd EXCEPT !.pc = "done", !.status = StatusOK, !.sent = @ + 1]
    /\ UNCHANGED <<index, store, nextUid, up, an, delSending, delIssued, fw, more>>

\* service.deleteCore: the document is looked up; an unknown uid gets 400,
\* a known one is to be sent on the cleanup queue.
DeleteFind ==
    /\ delIssued < MaxDeletes
    /\ delIssued' = delIssued + 1
    /\ \E uid \in 1..MaxUploads :
        delSending' = IF uid \in DOMAIN index
                      THEN delSending (+) SetToBag({CleanupItem(index[uid])})
                      ELSE delSending
    /\ UNCHANGED <<index, store, nextUid, up, an, cl, deleted, side>>

\* service.deleteCore: the send on the cleanup queue, received by the idle
\* worker (the queue has no buffer), then the 200.
DeleteEnqueue ==
    /\ cl.pc = "idle"
    /\ \E c \in BagToSet(delSending) :
        /\ cl' = [IdleCleanup EXCEPT !.pc = "cleanIndex", !.core = c]
        /\ delSending' = delSending (-) SetToBag({c})
        /\ deleted' = deleted \cup {c.uid}
    /\ UNCHANGED <<index, store, nextUid, up, an, delIssued, side>>

\* The cleanup worker: the steps of one cleanup, in the order of section 4.5
\* of the specification (cleanIndex, cleanStore, and cleanExecutable if
\* canCleanExecutable).
CleanIndex ==
    /\ cl.pc = "cleanIndex"
    /\ LET b == cleanIndex(cl, index)
       IN /\ index' = b.ix
          /\ cl' = [b.p EXCEPT !.pc = "cleanStore"]
    /\ UNCHANGED <<store, nextUid, up, an, delSending, delIssued, deleted, side>>

CleanStore ==
    /\ cl.pc = "cleanStore"
    /\ LET b == cleanStore(cl, store)
       IN /\ store' = b.st
          /\ cl' = [b.p EXCEPT !.pc = "canCleanExecutable"]
    /\ UNCHANGED <<index, nextUid, up, an, delSending, delIssued, deleted, side>>

CanCleanExecutable ==
    /\ cl.pc = "canCleanExecutable"
    /\ cl' = IF canCleanExecutable(cl, index)
             THEN [cl EXCEPT !.pc = "cleanExecutable"]
             ELSE IdleCleanup
    /\ UNCHANGED <<index, store, nextUid, up, an, delSending, delIssued, deleted, side>>

CleanExecutable ==
    /\ cl.pc = "cleanExecutable"
    /\ store' = cleanExecutable(cl, store).st
    /\ cl' = IdleCleanup
    /\ UNCHANGED <<index, nextUid, up, an, delSending, delIssued, deleted, side>>

Next ==
    \/ \E r \in Slots : UploadBegin(r)
    \/ \E r \in Slots : UploadCopy(r)
    \/ \E r \in Slots : UploadIndex(r)
    \/ \E r \in Slots : UploadEnqueue(r)
    \/ AnalyzeInit
    \/ AnalyzeFinish
    \/ DeleteFind
    \/ DeleteEnqueue
    \/ CleanIndex
    \/ CleanStore
    \/ CanCleanExecutable
    \/ CleanExecutable

Spec == Init /\ [][Next]_vars

\* The uploads of any client, with the analysis worker that receives them.
NextAny ==
    \/ \E r \in Slots : UploadBeginAny(r)
    \/ \E r \in Slots : UploadCopy(r)
    \/ \E r \in Slots : UploadIndex(r)
    \/ \E r \in Slots : UploadEnqueue(r)
    \/ AnalyzeInit
    \/ AnalyzeFinish

SpecAny == Init /\ [][NextAny]_vars

\* The service started on stored cores, with its handlers of
\* /cores/:uid/_analyze and DELETE /cores/:uid and its two workers.
NextHandlers ==
    \/ AnalyzeInit
    \/ AnalyzeFinish
    \/ AnalyzeCoreFind
    \/ AnalyzeCoreSend
    \/ DeleteCoreFind
    \/ DeleteCoreSend
    \/ CleanIndex
    \/ CleanStore
    \/ CanCleanExecutable
    \/ CleanExecutable

SpecHandlers == InitStored /\ [][NextHandlers]_vars

\* The uploads, the analysis stage by stage and the requests of analysis.
NextAnalysis ==
    \/ \E r \in Slots : UploadBegin(r)
    \/ \E r \in Slots : UploadCopy(r)
    \/ \E r \in Slots : UploadIndex(r)
    \/ \E r \in Slots : UploadEnqueue(r)
    \/ AnalyzeInit
    \/ AnalyzeRun
    \/ AnalyzeIndex
    \/ AnalyzeCoreFind
    \/ AnalyzeCoreSend

SpecAnalysis == Init /\ [][NextAnalysis]_vars

\* The forwarders and the indexer that receives their requests.
NextForwarder ==
    \/ \E r \in Slots : ForwarderHash(r)
    \/ \E r \in Slots : ForwarderLookup(r)
    \/ \E r \in Slots : ForwarderPost(r)
    \/ \E r \in Slots : UploadCopy(r)
    \/ \E r \in Slots : UploadIndex(r)
    \/ \E r \in Slots : UploadEnqueue(r)
    \/ AnalyzeInit
    \/ AnalyzeFinish

SpecForwarder == Init /\ [][NextForwarder]_vars

\* The service and the forwarders at rest.
Quiet ==
    /\ index = <<>>
    /\ store = [cores |-> {}, executables |-> <<>>, links |-> {}]
    /\ nextUid = 1
    /\ up = [r \in Slots |-> IdleRequest]
    /\ an = IdleAnalysis
    /\ cl = IdleCleanup
    /\ delSending = EmptyBag
    /\ delIssued = 0
    /\ deleted = {}
    /\ hd = IdleHandler
    /\ fw = [r \in Slots |-> IdleForwarder]
    /\ rc = IdleRecovery

\* A call of package elfx is about to be made.
\* SetLibraryPath.  The loop over the entries: an empty entry is ".", an entry
\* that is in met is skipped, the others are appended; met is made empty and
\* nothing is ever put in it.
RECURSIVE setLibraryPathLoop(_, _, _)
setLibraryPathLoop(dirs, met, out) ==
    IF dirs = <<>> THEN out
    ELSE LET d == IF Len(Head(dirs)) = 0 THEN DirDot ELSE Head(dirs)
         IN IF d \in met THEN setLibraryPathLoop(Tail(dirs), met, out)
            ELSE setLibraryPathLoop(Tail(dirs), met, Append(out, d))

\* The value of LibraryPathDirs after SetLibraryPath(path): nil or a slice.
SetLibraryPath(path) ==
    IF Len(path) = 0 THEN [nil |-> TRUE, dirs |-> <<>>]
    ELSE [nil |-> FALSE, dirs |-> setLibraryPathLoop(Split(path, ":"), {}, <<>>)]

\* The values of LD_LIBRARY_PATH: at most MaxPath characters.
MaxPath == 3
PathChars == {"a", ".", ":"}
PathCalls ==
    {[op |-> "SetLibraryPath", path |-> p, done |-> FALSE, LibraryPathDirs |-> [nil |-> TRUE, dirs |-> <<>>]] :
        p \in UNION {[1..n -> PathChars] : n \in 0..MaxPath}}

InitElfx ==
    Quiet /\ ex \in ExpandCalls \cup PlainCalls \cup ResolveCalls \cup LinkCalls \cup OriginCalls \cup PathCalls

\* File.Expand is called.
ExpandCall ==
    /\ ex.op = "Expand" /\ ~ex.done
    /\ ex' = [ex EXCEPT !.done = TRUE,
                        !.out = Expand(ex.file, ex.path).out,
                        !.err = Expand(ex.file, ex.path).err]
    /\ UNCHANGED <<index, store, nextUid, up, an, cl, delSending, delIssued, deleted, hd, fw, rc>>

\* expand is called on a string without a known token.
PlainCall ==
    /\ ex.op = "expand" /\ ~ex.done
    /\ ex' = [ex EXCEPT !.done = TRUE,
                        !.out = Expand(ex.file, ex.path).out,
                        !.err = Expand(ex.file, ex.path).err]
    /\ UNCHANGED <<index, store, nextUid, up, an, cl, delSending, delIssued, deleted, hd, fw, rc>>

\* File.ResolveImportedLibrary is called.
ResolveCall ==
    /\ ex.op = "Resolve" /\ ~ex.done
    /\ LET r == ResolveImportedLibrary(ex.file, ex.env, ex.fs, ex.library)
       IN ex' = [ex EXCEPT !.done = TRUE, !.path = r.path, !.ok = r.ok, !.err = r.err]
    /\ UNCHANGED <<index, store, nextUid, up, an, cl, delSending, delIssued, deleted, hd, fw, rc>>

\* service.run of the forwarder: resolveLinks is called.
LinkCall ==
    /\ ex.op = "resolveLinks" /\ ~ex.done
    /\ LET r == resolveLinks(ex.file, ex.elf, ex.env, ex.fs, ex.elfs)
       IN ex' = [ex EXCEPT !.done = TRUE, !.links = r.links, !.err = r.err, !.taken = r.taken]
    /\ UNCHANGED <<index, store, nextUid, up, an, cl, delSending, delIssued, deleted, hd, fw, rc>>

\* SetLibraryPath is called with the value of LD_LIBRARY_PATH.
SetLibraryPathCall ==
    /\ ex.op = "SetLibraryPath" /\ ~ex.done
    /\ ex' = [ex EXCEPT !.done = TRUE, !.LibraryPathDirs = SetLibraryPath(ex.path)]
    /\ UNCHANGED <<index, store, nextUid, up, an, cl, delSending, delIssued, deleted, hd, fw, rc>>

NextElfx ==
    \/ ExpandCall
    \/ PlainCall
    \/ ResolveCall
    \/ LinkCall
    \/ SetLibraryPathCall

SpecElfx == InitElfx /\ [][NextElfx]_vars

\* A call of package conf is about to be made.
InitConf == Quiet /\ ex \in ParseCalls \cup MapCalls

\* parse is called.
ParseCall ==
    /\ ex.op = "parse" /\ ~ex.done
    /\ LET r == parse(ex.args, ex.conf, [paths |-> ex.paths, lines |-> Texts(ex.file)])
       IN ex' = [ex EXCEPT !.done = TRUE, !.flags = r.flags, !.err = r.err]
    /\ UNCHANGED <<index, store, nextUid, up, an, cl, delSending, delIssued, deleted, hd, fw, rc>>

\* Set is called on the map flag with the next raw value.  (applied is
\* history: the pieces of the raw values given so far.)
MapFlagSet ==
    /\ ex.op = "MapFlag" /\ ex.raws # <<>>
    /\ ex' = [ex EXCEPT !.raws = Tail(@),
                        !.m = mapFlagSet(@, RawText(Head(ex.raws))),
                        !.applied = @ \o Head(ex.raws)]
    /\ UNCHANGED <<index, store, nextUid, up, an, cl, delSending, delIssued, deleted, hd, fw, rc>>

NextConf ==
    \/ ParseCall
    \/ MapFlagSet

SpecConf == InitConf /\ [][NextConf]_vars

\* ---- BleveIndex: the documents as the fields the backend holds ----

\* Names of fields are sequences of characters.
MetaPrefix == <<"m", "e", "t", "a", ".">>
FieldUid == <<"u", "i", "d">>
FieldHostname == <<"h", "o", "s", "t", "n", "a", "m", "e">>
FieldMetadata == <<"m", "e", "t", "a", "d", "a", "t", "a">>

HasPrefix(s, prefix) == Len(s) >= Len(prefix) /\ SubSeq(s, 1, Len(prefix)) = prefix
TrimPrefix(s, prefix) == IF HasPrefix(s, prefix) THEN SubSeq(s, Len(prefix) + 1, Len(s)) ELSE s

\* The index is created with bleve's default mapping: a string that the
\* default date parser reads is indexed as a date, and a date is read back in
\* the RFC 3339 format; any other string is a text, read back as it is.
DateRead == [x \in {"2020-05-01"} |-> "2020-05-01T00:00:00Z"]
fieldValue(v) == IF v \in DOMAIN DateRead THEN DateRead[v] ELSE v

\* mapper.ToMap with the json tags: the fields of the structure, the map of
\* metadata being a document of its own under "metadata".
ToMap(c) ==
    [n \in {FieldUid, FieldHostname}
           \cup {FieldMetadata \o <<".">> \o k : k \in DOMAIN c.metadata} |->
        IF n = FieldUid THEN c.uid
        ELSE IF n = FieldHostname THEN c.hostname
        ELSE c.metadata[SubSeq(n, Len(FieldMetadata) + 2, Len(n))]]

\* The map with a field meta.<key> for every entry of the metadata.
withMeta(m, metadata) ==
    [n \in DOMAIN m \cup {MetaPrefix \o k : k \in DOMAIN metadata} |->
        IF n \in {MetaPrefix \o k : k \in DOMAIN metadata}
        THEN metadata[TrimPrefix(n, MetaPrefix)] ELSE m[n]]

\* bleve's Index: the document replaces the one of the same identifier.
bleveIndex(ix, uid, m) == Put(ix, uid, [n \in DOMAIN m |-> fieldValue(m[n])])

\* BleveIndex.Index.
BleveIndexIndex(ix, c) == bleveIndex(ix, c.uid, withMeta(ToMap(c), c.metadata))

ZeroDocument == [uid |-> "", hostname |-> "", metadata |-> <<>>]

\* mapper.ToStruct: the fields of the structure by their json tags.
ToStruct(fields) ==
    [uid |-> fields[FieldUid], hostname |-> fields[FieldHostname], metadata |-> <<>>]

\* The metadata put together from the fields meta.<key>.  (All values of the
\* model are strings: the type assertion holds.)
metaOf(fields) ==
    [k \in {TrimPrefix(n, MetaPrefix) : n \in {x \in DOMAIN fields : HasPrefix(x, MetaPrefix)}} |->
        fields[MetaPrefix \o k]]

hitOf(fields) == [ToStruct(fields) EXCEPT !.metadata = metaOf(fields)]

\* BleveIndex.Find.
BleveIndexFind(ix, uid) ==
    IF uid \notin DOMAIN ix THEN [err |-> "not found", c |-> ZeroDocument]
    ELSE [err |-> NoErr, c |-> hitOf(ix[uid])]

\* BleveIndex.Search with a query that every document matches and a page
\* that holds them all.
BleveIndexSearch(ix) == {hitOf(ix[uid]) : uid \in DOMAIN ix}

\* The coredumps given to Index: the keys of the metadata are a plain one
\* and one that starts with "meta." itself, the values a plain text and a
\* day.
MetaKeys == {<<"k">>, MetaPrefix \o <<"k">>}
MetaValues == {"s", "2020-05-01"}
MetaMaps == UNION {[ks -> MetaValues] : ks \in SUBSET MetaKeys}
Documents == [uid : {"u1", "u2"}, hostname : {"h"}, metadata : MetaMaps]
NotSought == [done |-> FALSE, uid |-> "", err |-> NoErr, c |-> ZeroDocument]
IndexCalls ==
    {[op |-> "Index", todo |-> cs, ix |-> <<>>, given |-> <<>>,
      found |-> NotSought, searched |-> FALSE, hits |-> {}] :
        cs \in UNION {[1..n -> Documents] : n \in 1..MaxIndexed}}

InitIndex == Quiet /\ ex \in IndexCalls

\* Index is called with the next coredump.  (given is history: the last
\* coredump given for each identifier.)
IndexCall ==
    /\ ex.op = "Index" /\ ex.todo # <<>>
    /\ ex' = [ex EXCEPT !.todo = Tail(@),
                        !.ix = BleveIndexIndex(@, Head(ex.todo)),
                        !.given = Put(@, Head(ex.todo).uid, Head(ex.todo)),
                        !.found = NotSought, !.searched = FALSE, !.hits = {}]
    /\ UNCHANGED <<index, store, nextUid, up, an, cl, delSending, delIssued, deleted, hd, fw, rc>>

FindCall ==
    /\ ex.op = "Index" /\ ~ex.found.done
    /\ \E uid \in {"u1", "u2"} :
        ex' = [ex EXCEPT !.found = [done |-> TRUE, uid |-> uid,
                                    err |-> BleveIndexFind(ex.ix, uid).err,
                                    c |-> BleveIndexFind(ex.ix, uid).c]]
    /\ UNCHANGED <<index, store, nextUid, up, an, cl, delSending, delIssued, deleted, hd, fw, rc>>

SearchCall ==
    /\ ex.op = "Index" /\ ~ex.searched
    /\ ex' = [ex EXCEPT !.searched = TRUE, !.hits = BleveIndexSearch(ex.ix)]
    /\ UNCHANGED <<index, store, nextUid, up, an, cl, delSending, delIssued, deleted, hd, fw, rc>>

NextIndex ==
    \/ IndexCall
    \/ FindCall
    \/ SearchCall

SpecIndex == InitIndex /\ [][NextIndex]_vars

\* ---- The analysis with the analyzer commands of the configuration ----

\* (Variant: a language without command is an error.)
extractStackTraceUnhandled(p, analyzers, ok) ==
    IF p.err # NoErr THEN p
    ELSE IF p.core.lang \notin analyzers THEN [p EXCEPT !.err = "extracting stack trace"]
    ELSE IF ~ok THEN [p EXCEPT !.err = "extracting stack trace"]
    ELSE [p EXCEPT !.core.trace = "trace"]

\* analyzeProcess.extractStackTrace with the commands service.init has parsed
\* (a language whose command is empty has none): without command for the
\* language a warning is logged and nothing else is done; the command
\* succeeds or fails.
extractStackTraceCommand(p, analyzers, ok) ==
    IF p.err # NoErr THEN p
    ELSE IF p.core.lang \notin analyzers THEN p
    ELSE IF ~ok THEN [p EXCEPT !.err = "extracting stack trace"]
    ELSE [p EXCEPT !.core.trace = "trace"]

\* A document with its trace.
WithTrace(c, trace) == [f \in DOMAIN c \cup {"trace"} |-> IF f = "trace" THEN trace ELSE c[f]]

\* One analysis: the commands registered, the executable of the core (a C
\* one, a Go one, or one that is no ELF file), the document indexed by the
\* upload.
AnalyzeCalls ==
    {[op |-> "analyze", stage |-> "init", analyzers |-> as,
      p |-> [IdleAnalysis EXCEPT !.uid = uid, !.core = WithTrace(ZeroCoredump, "")],
      ix |-> (uid :> WithTrace([ZeroCoredump EXCEPT !.uid = uid, !.executable_hash = Sha1(exe),
                                                    !.executable_size = Len(exe)], "")),
      st |-> [links |-> {}, cores |-> {uid}, executables |-> (Sha1(exe) :> exe)]] :
        as \in SUBSET {LangC, LangGo}, uid \in 1..2, exe \in ExeFiles \cup {<<1>>}}

InitAnalyzers == Quiet /\ ex \in AnalyzeCalls

AnalyzeInitCall ==
    /\ ex.op = "analyze" /\ ex.stage = "init"
    /\ ex' = [ex EXCEPT !.stage = "detect", !.p = analyzeInit(@, ex.ix, ex.st)]
    /\ UNCHANGED <<index, store, nextUid, up, an, cl, delSending, delIssued, deleted, hd, fw, rc>>

DetectLanguageCall ==
    /\ ex.op = "analyze" /\ ex.stage = "detect"
    /\ ex' = [ex EXCEPT !.stage = "extract", !.p = detectLanguage(@, ex.st)]
    /\ UNCHANGED <<index, store, nextUid, up, an, cl, delSending, delIssued, deleted, hd, fw, rc>>

ExtractStackTraceCall ==
    /\ ex.op = "analyze" /\ ex.stage = "extract"
    /\ \E ok \in BOOLEAN :
        ex' = [ex EXCEPT !.stage = "index", !.p = extractStackTraceCommand(@, ex.analyzers, ok)]
    /\ UNCHANGED <<index, store, nextUid, up, an, cl, delSending, delIssued, deleted, hd, fw, rc>>

IndexResultsCall ==
    /\ ex.op = "analyze" /\ ex.stage = "index"
    /\ \E ixok \in BOOLEAN :
        ex' = [ex EXCEPT !.stage = "done",
                         !.p = indexResults(ex.p, ex.ix, ixok).p,
                         !.ix = indexResults(ex.p, ex.ix, ixok).ix]
    /\ UNCHANGED <<index, store, nextUid, up, an, cl, delSending, delIssued, deleted, hd, fw, rc>>

NextAnalyzers ==
    \/ AnalyzeInitCall
    \/ DetectLanguageCall
    \/ ExtractStackTraceCall
    \/ IndexResultsCall

SpecAnalyzers == InitAnalyzers /\ [][NextAnalyzers]_vars

\* The service as it is started on what earlier runs left: the first document
\* may be analyzed, the others are not.
InitLeftover ==
    \E n \in 0..MaxLeftover, first \in BOOLEAN :
        Restarted(n, [u \in 1..n |-> <<1, 2>>], [u \in 1..n |-> first /\ u = 1])

\* The recovery goroutine: the search for the documents that are not analyzed.
RecoveryFind ==
    /\ rc.pc = "find"
    /\ \E hits \in SearchHits(index), fails \in BOOLEAN :
        rc' = recoveryFound(rc, FindUnanalyzed(hits, fails))
    /\ UNCHANGED <<index, store, nextUid, up, an, cl, delSending, delIssued, deleted, hd, fw, ex>>

\* The recovery goroutine: the next uid of the range is sent on the analysis
\* queue and received by the idle worker (the queue has no buffer).  The uids
\* are taken in increasing order.  (The select may take the send also when the
\* context is done: it takes any of the cases that can proceed.)
RecoverySend ==
    /\ rc.pc = "send"
    /\ an.pc = "idle"
    /\ \E uid \in rc.uids :
        /\ \A v \in rc.uids : uid <= v
        /\ an' = [IdleAnalysis EXCEPT !.pc = "init", !.uid = uid]
        /\ rc' = recoverySent(rc, uid)
    /\ UNCHANGED <<index, store, nextUid, up, cl, delSending, delIssued, deleted, hd, fw, ex>>

\* The context of the service is cancelled.
RecoveryCancel ==
    /\ ~rc.ctxDone
    /\ rc' = [rc EXCEPT !.ctxDone = TRUE]
    /\ UNCHANGED <<index, store, nextUid, up, an, cl, delSending, delIssued, deleted, hd, fw, ex>>

\* The recovery goroutine: the select takes <-ctx.Done() and the loop is left.
RecoveryBreak ==
    /\ rc.pc = "send"
    /\ rc.ctxDone
    /\ rc' = [rc EXCEPT !.pc = "done"]
    /\ UNCHANGED <<index, store, nextUid, up, an, cl, delSending, delIssued, deleted, hd, fw, ex>>

\* The service at startup: the recovery goroutine and the analysis worker.
NextRecovery ==
    \/ RecoveryFind
    \/ RecoverySend
    \/ RecoveryCancel
    \/ RecoveryBreak
    \/ AnalyzeInit
    \/ AnalyzeFinish

SpecRecovery == InitLeftover /\ [][NextRecovery]_vars

----------------------------------------------------------------------------
\* service.run from its start to the end of the process: the worker, the
\* recovery goroutine, the handlers and the goroutine that shuts down.

\* The documents earlier runs left unanalyzed, at most.
MaxUnanalyzed == 1

\* service.run is running.  (closed: close(s.queue) was done; shutdown:
\* server.Shutdown was called, the listener is closed; returned: run and main
\* have returned, the process is over; worker: the goroutine of the worker
\* ranges over the queue or has left the loop; panics: the goroutines that
\* sent on the closed queue; sends is history: the sends the worker received,
\* with the sender.)
Running ==
    [op |-> "run", closed |-> FALSE, shutdown |-> FALSE, returned |-> FALSE,
     worker |-> "range", panics |-> {}, sends |-> {}]

\* The goroutines of the process run: run was called and has not returned,
\* and no goroutine died of a panic (the panic of a handler is recovered by
\* the middleware, that of the recovery goroutine ends the process).
Alive == ex.op = "run" /\ ~ex.returned /\ "recovery" \notin ex.panics

InitRun ==
    \E n \in 0..MaxUnanalyzed :
        Restarted(n, [u \in 1..n |-> <<1, 2>>], [u \in 1..n |-> FALSE])

\* main calls service.run: the queue is there, the goroutines are started.
Run ==
    /\ ex = NoCall
    /\ ex' = Running
    /\ UNCHANGED <<index, store, nextUid, up, an, cl, delSending, delIssued, deleted, hd, fw, rc>>

\* POST /cores is served while the listener is open.
RunUploadBegin(r) == Alive /\ ~ex.shutdown /\ UploadBegin(r)
RunUploadCopy(r) == Alive /\ UploadCopy(r)
RunUploadIndex(r) == Alive /\ UploadIndex(r)

\* service.indexCore: the send on the open queue, received by the idle
\* worker, then the 200.
RunUploadEnqueue(r) ==
    /\ Alive /\ ~ex.closed
    /\ up[r].pc = "send"
    /\ queueTakes(an)
    /\ an' = [IdleAnalysis EXCEPT !.pc = "init", !.uid = up[r].coredump.uid]
    /\ up' = [up EXCEPT ![r] = [@ EXCEPT !.pc = "done", !.status = StatusOK, !.log = Append(@, "enqueue")]]
    /\ ex' = [ex EXCEPT !.sends = @ \cup {<<up[r].coredump.uid, "indexCore">>}]
    /\ UNCHANGED <<index, store, nextUid, cl, delSending, delIssued, deleted, hd, fw, rc>>

\* service.indexCore: the send on the closed queue (or the send that was
\* waiting when the queue is closed) panics; the middleware recovers the
\* panic and answers 500.
RunUploadPanic(r) ==
    /\ Alive /\ ex.closed
    /\ up[r].pc = "send"
    /\ up' = [up EXCEPT ![r] = [@ EXCEPT !.pc = "done", !.status = StatusInternalServerError,
                                         !.body = "send on closed channel"]]
    /\ ex' = [ex EXCEPT !.panics = @ \cup {"indexCore"}]
    /\ UNCHANGED <<index, store, nextUid, an, cl, delSending, delIssued, deleted, hd, fw, rc>>

\* POST /cores/:uid/_analyze is served once, while the listener is open.
RunAnalyzeCoreFind ==
    /\ Alive /\ ~ex.shutdown
    /\ hd.pc = "idle"
    /\ AnalyzeCoreFind

RunAnalyzeCoreSend ==
    /\ Alive /\ ~ex.closed
    /\ hd.pc = "send" /\ hd.kind = "analyze"
    /\ queueTakes(an)
    /\ an' = [IdleAnalysis EXCEPT !.pc = "init", !.uid = hd.uid]
    /\ hd' = [hd EXCEPT !.pc = "done", !.status = StatusAccepted, !.sent = @ + 1]
    /\ ex' = [ex EXCEPT !.sends = @ \cup {<<hd.uid, "analyzeCore">>}]
    /\ UNCHANGED <<index, store, nextUid, up, cl, delSending, delIssued, deleted, fw, rc>>

RunAnalyzeCorePanic ==
    /\ Alive /\ ex.closed
    /\ hd.pc = "send" /\ hd.kind = "analyze"
    /\ hd' = [hd EXCEPT !.pc = "done", !.status = StatusInternalServerError,
                        !.body = "send on closed channel"]
    /\ ex' = [ex EXCEPT !.panics = @ \cup {"analyzeCore"}]
    /\ UNCHANGED <<index, store, nextUid, up, an, cl, delSending, delIssued, deleted, fw, rc>>

\* The worker: one analysis; the loop is left once the queue is closed.
RunAnalyzeInit == Alive /\ AnalyzeInit
RunAnalyzeFinish == Alive /\ AnalyzeFinish
RunWorkerExit ==
    /\ Alive /\ ex.closed
    /\ an.pc = "idle" /\ ex.worker = "range"
    /\ ex' = [ex EXCEPT !.worker = "exited"]
    /\ UNCHANGED <<index, store, nextUid, up, an, cl, delSending, delIssued, deleted, hd, fw, rc>>

\* The recovery goroutine.  Its select takes the send when the worker
\* receives, whether the context is done or not (a select takes any of the
\* cases that can proceed).
RunRecoveryFind == Alive /\ RecoveryFind
RunRecoverySend ==
    /\ Alive /\ ~ex.closed
    /\ rc.pc = "send"
    /\ queueTakes(an)
    /\ \E uid \in rc.uids :
        /\ \A v \in rc.uids : uid <= v
        /\ an' = [IdleAnalysis EXCEPT !.pc = "init", !.uid = uid]
        /\ rc' = recoverySent(rc, uid)
        /\ ex' = [ex EXCEPT !.sends = @ \cup {<<uid, "recovery">>}]
    /\ UNCHANGED <<index, store, nextUid, up, cl, delSending, delIssued, deleted, hd, fw>>
RunRecoveryBreak == Alive /\ RecoveryBreak

\* The recovery goroutine comes to its select when the queue is closed: the
\* send on a closed channel can proceed as well as <-ctx.Done(), and when it
\* is taken it panics; nothing recovers a panic of this goroutine.
RunRecoveryPanic ==
    /\ Alive /\ ex.closed
    /\ rc.pc = "send"
    /\ rc' = [rc EXCEPT !.pc = "done"]
    /\ ex' = [ex EXCEPT !.panics = @ \cup {"recovery"}]
    /\ UNCHANGED <<index, store, nextUid, up, an, cl, delSending, delIssued, deleted, hd, fw>>

\* The signal: the context is cancelled.
RunCancel == Alive /\ RecoveryCancel

\* The goroutine that shuts down: after <-ctx.Done() the queue is closed,
\* then server.Shutdown is called.
RunClose ==
    /\ Alive /\ rc.ctxDone /\ ~ex.closed
    /\ ex' = [ex EXCEPT !.closed = TRUE]
    /\ UNCHANGED <<index, store, nextUid, up, an, cl, delSending, delIssued, deleted, hd, fw, rc>>

RunShutdown ==
    /\ Alive /\ ex.closed /\ ~ex.shutdown
    /\ ex' = [ex EXCEPT !.shutdown = TRUE]
    /\ UNCHANGED <<index, store, nextUid, up, an, cl, delSending, delIssued, deleted, hd, fw, rc>>

\* ListenAndServe returns as soon as Shutdown was called; run logs and
\* returns, main returns: the process is over, whatever its goroutines do.
RunReturn ==
    /\ Alive /\ ex.shutdown
    /\ ex' = [ex EXCEPT !.returned = TRUE]
    /\ UNCHANGED <<index, store, nextUid, up, an, cl, delSending, delIssued, deleted, hd, fw, rc>>

NextRun ==
    \/ Run
    \/ \E r \in Slots : RunUploadBegin(r)
    \/ \E r \in Slots : RunUploadCopy(r)
    \/ \E r \in Slots : RunUploadIndex(r)
    \/ \E r \in Slots : RunUploadEnqueue(r)
    \/ \E r \in Slots : RunUploadPanic(r)
    \/ RunAnalyzeCoreFind
    \/ RunAnalyzeCoreSend
    \/ RunAnalyzeCorePanic
    \/ RunAnalyzeInit
    \/ RunAnalyzeFinish
    \/ RunWorkerExit
    \/ RunRecoveryFind
    \/ RunRecoverySend
    \/ RunRecoveryBreak
    \/ RunRecoveryPanic
    \/ RunCancel
    \/ RunClose
    \/ RunShutdown
    \/ RunReturn

SpecRun == InitRun /\ [][NextRun]_vars

\* The goroutine of the analysis worker runs whenever it can take a step.
AnalysisStep == AnalyzeInit \/ AnalyzeRun \/ AnalyzeIndex

LiveAnalysis == Init /\ [][NextAnalysis]_vars /\ WF_vars(AnalysisStep)

\* The goroutine of the cleanup worker runs whenever it can take a step.
CleanupStep == CleanIndex \/ CleanStore \/ CanCleanExecutable \/ CleanExecutable

LiveSpec == Init /\ [][Next]_vars /\ WF_vars(CleanupStep)

----------------------------------------------------------------------------
\* Vocabulary of the properties.

Indexed == DOMAIN index
Started == {r \in Slots : up[r].pc # "idle"}
Succeeded == {r \in Slots : up[r].pc = "done" /\ up[r].status = StatusOK}
\* The upload of uid u carried the executable.
Carried(u) == \E r \in Started : up[r].uid = u /\ up[r].in.incl
\* Every cleanup the worker received for u has ended.
CleanupRan(u) == u \in deleted /\ ~(cl.pc # "idle" /\ cl.core.uid = u)
\* The uploads that have written in executables/<h>.
Writers(h) == {r \in Started : up[r].req.executable_hash = h /\ up[r].req.include_executable
                               /\ up[r].segs >= 3}
Rank(e) == CASE e = "header" -> 1 [] e = "core" -> 2 [] e = "executable" -> 3
             [] e = "index" -> 4 [] e = "enqueue" -> 5
Events(r) == {up[r].log[i] : i \in 1..Len(up[r].log)}

\* C1 (as stated): every uid with a document in the index has a core file in
\* the store.
C1_Claim == \A u \in Indexed : u \in store.cores

\* C1 (amended): a uid with a document in the index has a core file in the
\* store, unless that uid was handed to the cleanup worker and the document
\* is one an analysis wrote back (analyzed = true).
C1_Amended == \A u \in Indexed : u \in store.cores \/ (u \in deleted /\ index[u].analyzed)

C1_Witness ==
    \E u, w \in Indexed :
        /\ u \in store.cores /\ u \notin deleted
        /\ w \in deleted /\ index[w].analyzed /\ w \notin store.cores
        /\ cl.pc = "idle" /\ an.pc = "idle"

\* C2: with uploads and cleanups only (no document written by an analysis),
\* every indexed coredump whose upload carried the executable has its
\* executable in the store.
C2_Claim ==
    (\A u \in Indexed : ~index[u].analyzed)
        => \A u \in Indexed : Carried(u) => ExecutableExists(store, index[u].executable_hash)

\* C3: a step that removes the executable of hash h from the store is taken
\* only when no document of the index references h.
C3_Claim ==
    [][\A h \in DOMAIN store.executables :
          h \notin DOMAIN store'.executables => SearchExecutableHash(index, h) = {}]_vars

\* C4: when the cleanup of an indexed core ends and no document references
\* its hash any more, the store no longer holds the executable of that hash.
C4_Claim ==
    [][(/\ cl.pc # "idle" /\ cl'.pc = "idle" /\ cl.removed
        /\ SearchExecutableHash(index', cl.core.executable_hash) = {})
        => ~ExecutableExists(store', cl.core.executable_hash)]_vars

C6_Theorem ==
    \A r \in Started :
        /\ up[r].pc = "done" /\ up[r].in.fault # NoFault => up[r].err # NoErr
        /\ up[r].err # NoErr =>
            /\ up[r].uid \notin Indexed
            /\ up[r].pc # "send" /\ an.uid # up[r].uid /\ "enqueue" \notin Events(r)
            /\ up[r].pc = "done" =>
                up[r].status = StatusInternalServerError /\ up[r].body = up[r].err

C6_Witness ==
    \E r, q \in Slots :
        /\ up[r].pc = "done" /\ up[r].status = StatusInternalServerError
        /\ up[r].body = "opening executable file" /\ up[r].uid \in store.cores
        /\ up[q].pc = "done" /\ up[q].body = "parsing header"

\* C7: the stages of one upload act in the order header, core, executable,
\* index, enqueue; the index write comes after the header, the core and the
\* executable if it is included, the enqueue after the index write.
C7_Theorem ==
    \A r \in Started :
        /\ \A i, j \in 1..Len(up[r].log) : i < j => Rank(up[r].log[i]) < Rank(up[r].log[j])
        /\ "index" \in Events(r) =>
            /\ {"header", "core"} \subseteq Events(r)
            /\ up[r].in.incl => "executable" \in Events(r) /\ ~up[r].copying
        /\ "enqueue" \in Events(r) => "index" \in Events(r)
        /\ "executable" \in Events(r) => "core" \in Events(r)
        /\ "core" \in Events(r) => "header" \in Events(r)

C7_Witness ==
    \E r \in Succeeded : up[r].log = <<"header", "core", "executable", "index", "enqueue">>

\* C8: a successful upload has consumed every segment of the body the
\* forwarder wrote, and every link sent is stored under links/<hash>/<name>.
C8_Claim ==
    \A r \in Succeeded :
        /\ up[r].segs = Len(ForwarderBody(up[r].in))
        /\ \A i \in 1..Len(SentLinks(up[r].in.links)) :
            <<up[r].in.hash, SentLinks(up[r].in.links)[i]>> \in store.links

\* C9: two successful uploads with the same executable_hash have distinct
\* uids, a document and a core file each, and one executable, stored under
\* that hash: the store holds no executable under another name than a hash
\* of a header.
C9_Theorem ==
    \A r, q \in Succeeded :
        r # q /\ up[r].in.hash = up[q].in.hash =>
            /\ up[r].uid # up[q].uid
            /\ {up[r].uid, up[q].uid} \subseteq Indexed
            /\ {up[r].uid, up[q].uid} \subseteq store.cores
            /\ index[up[r].uid].executable_hash = index[up[q].uid].executable_hash
            /\ ExecutableExists(store, up[r].in.hash)
            /\ DOMAIN store.executables \subseteq {up[x].in.hash : x \in Started}

C9_Witness ==
    \E r, q \in Succeeded :
        /\ r # q /\ up[r].in.hash = up[q].in.hash
        /\ up[r].in.incl /\ ~up[q].in.incl
        /\ Cardinality(DOMAIN store.executables) = 1

\* C10 (as stated): every executable in the store, once written, is under
\* the SHA-1 of its bytes.
C10_Claim ==
    \A h \in DOMAIN store.executables :
        (\A r \in Writers(h) : ~up[r].copying) => Sha1(store.executables[h]) = h

\* C10 (amended): an executable in the store is under the SHA-1 of its bytes
\* when every upload that wrote it has sent, to the end, an executable whose
\* SHA-1 is the executable_hash of its header.
C10_Amended ==
    \A h \in DOMAIN store.executables :
        (\A r \in Writers(h) : /\ ~up[r].copying /\ ~CutAt(up[r], 3)
                               /\ hashExecutable(up[r].in.exe) = up[r].in.hash)
            => Sha1(store.executables[h]) = h

C10_Witness ==
    \E h \in DOMAIN store.executables, r, q \in Slots :
        /\ r # q /\ {r, q} \subseteq Writers(h)
        /\ \A w \in Writers(h) : /\ ~up[w].copying /\ ~CutAt(up[w], 3)
                                 /\ hashExecutable(up[w].in.exe) = up[w].in.hash
        /\ Sha1(store.executables[h]) = h

----------------------------------------------------------------------------
\* The analysis takes a step.
AnalysisActs == an' # an /\ an.pc \in {"init", "run", "index"}
\* The analysis ends, with the error it logs or with none.
AnalysisEnds == an.pc = "index" /\ an'.pc = "idle"

\* C11 (as stated): when an analysis ends with a failure, the document of its
\* uid has analyzed = false, for a first analysis and for a re-analysis.
C11_Claim ==
    [][(AnalysisEnds /\ an'.logged # NoErr /\ an.uid \in DOMAIN index')
          => ~index'[an.uid].analyzed]_vars

\* C11 (amended): once a stage of an analysis has failed the later stages do
\* nothing (the error stays the first one and the index is not written), the
\* error is logged when the analysis ends, and the document is left as it
\* was: analyzed = false if it was, the result of the earlier analysis
\* otherwise.
C11_Amended ==
    [][/\ (AnalysisActs /\ an.err # NoErr) =>
            /\ index' = index
            /\ IF an.pc = "index" THEN an'.logged = an.err ELSE an'.err = an.err
       /\ (AnalysisEnds /\ an'.logged # NoErr) => index' = index
       /\ (AnalysisEnds /\ an'.logged = NoErr) => an.err = NoErr]_vars

C11_Witness ==
    /\ an.pc = "idle" /\ an.logged = "extracting stack trace"
    /\ hd.pc = "done" /\ hd.status = StatusAccepted
    /\ hd.uid \in Indexed /\ index[hd.uid].analyzed
    /\ \E u \in Indexed : ~index[u].analyzed

\* C12: after every step, every document of the index with analyzed = true
\* has analyzed_at set, and the document an upload has just indexed has
\* analyzed = false.
C12_Theorem ==
    [][/\ \A u \in DOMAIN index' : index'[u].analyzed => index'[u].analyzed_at # 0
       /\ \A r \in Slots : (up[r].pc = "index" /\ up'[r].pc = "send")
            => up[r].uid \in DOMAIN index' /\ ~index'[up[r].uid].analyzed]_vars

C12_Witness ==
    \E u, v \in Indexed :
        /\ index[u].analyzed /\ index[u].analyzed_at = Now
        /\ ~index[v].analyzed /\ index[v].analyzed_at = 0
        /\ \E r \in Slots : up[r].pc = "send" /\ up[r].uid = v

\* C13: the uid of every successful upload has been taken by the analysis
\* worker, its analysis eventually ends, and an analysis that ends without
\* error leaves the document with analyzed = true, analyzed_at set and lang
\* Go if the executable of its hash has a section .go.buildinfo, C if not.
C13_Theorem ==
    /\ \A r \in Slots :
        (r \in Succeeded) ~> (r \in Succeeded /\ ~(an.pc # "idle" /\ an.uid = up[r].uid))
    /\ [][\A r \in Slots : (up[r].pc = "send" /\ up'[r].pc = "done")
            => an'.pc = "init" /\ an'.uid = up[r].uid]_vars
    /\ [][(AnalysisEnds /\ an'.logged = NoErr) =>
            /\ an.uid \in DOMAIN index'
            /\ index'[an.uid].analyzed /\ index'[an.uid].analyzed_at # 0
            /\ \E f \in ExeFiles :
                /\ hashExecutable(f) = index'[an.uid].executable_hash
                /\ index'[an.uid].lang = IF HasGoBuildInfo(f) THEN LangGo ELSE LangC]_vars

C13_Witness ==
    \E r, q \in Succeeded :
        /\ {up[r].uid, up[q].uid} \subseteq Indexed
        /\ index[up[r].uid].analyzed /\ index[up[r].uid].lang = LangGo
        /\ index[up[q].uid].analyzed /\ index[up[q].uid].lang = LangC
        /\ an.pc = "idle"

\* C16: a dump whose forwarder could not hash the executable or got no
\* answer to the lookup is posted with include_executable = true and is
\* stored and indexed; the executable is left out only when the lookup
\* answered 200.
C16_Claim ==
    \A r \in Slots :
        /\ (fw[r].pc = "posted" /\ (fw[r].hashFailed \/ fw[r].lookup = "error")) =>
            /\ up[r].in.incl
            /\ up[r].pc = "done" =>
                up[r].status = StatusOK /\ up[r].uid \in Indexed /\ up[r].uid \in store.cores
        /\ (fw[r].pc = "posted" /\ ~up[r].in.incl) => fw[r].lookup = "found"

\* C14 (as stated): when the recovery goroutine has ended after a search that
\* succeeded and without a cancellation, every document that is not analyzed
\* was put on the analysis queue, however many there are.
C14_Claim ==
    (rc.pc = "done" /\ rc.logged = NoErr /\ ~rc.ctxDone) =>
        \A u \in Indexed : ~index[u].analyzed => u \in rc.sent

\* C15: analyzeCore and deleteCore send on their queue if and only if Find
\* succeeded.  A request that is answered without a send has an unknown uid
\* and gets 400 "unknown core", or met another error of the index and gets
\* 500; a request goes to the send only with a uid the index holds; the send
\* hands that uid to the idle worker of the right queue, once, and is followed
\* by 202 (analyzeCore) or 200 (deleteCore); and no worker receives an item
\* that no handler sent.
C15_Theorem ==
    [][/\ (hd' # hd /\ hd.pc # "send" /\ hd'.pc = "send") =>
            /\ hd'.uid \in Indexed
            /\ hd'.sent = 0
            /\ UNCHANGED <<an, cl>>
       /\ (hd' # hd /\ hd.pc # "send" /\ hd'.pc = "done") =>
            /\ hd'.sent = 0
            /\ UNCHANGED <<an, cl>>
            /\ \/ hd'.status = StatusInternalServerError
               \/ /\ hd'.status = StatusBadRequest
                  /\ hd'.body = "unknown core"
                  /\ hd'.uid \notin Indexed
       /\ (hd' # hd /\ hd.pc = "send") =>
            /\ hd'.pc = "done"
            /\ hd'.sent = 1
            /\ IF hd.kind = "analyze"
               THEN /\ hd'.status = StatusAccepted
                    /\ an.pc = "idle" /\ an'.pc = "init" /\ an'.uid = hd.uid
                    /\ cl' = cl
               ELSE /\ hd'.status = StatusOK
                    /\ cl.pc = "idle" /\ cl'.pc = "cleanIndex" /\ cl'.core.uid = hd.uid
                    /\ an' = an
       /\ (an.pc = "idle" /\ an'.pc # "idle") => hd.pc = "send" /\ hd.kind = "analyze"
       /\ (cl.pc = "idle" /\ cl'.pc # "idle") => hd.pc = "send" /\ hd.kind = "delete"
      ]_vars

\* A DELETE of a known uid was answered 200 after its one send, and the
\* cleanup worker holds the item.
C15_Witness ==
    /\ hd.pc = "done" /\ hd.kind = "delete"
    /\ hd.status = StatusOK /\ hd.sent = 1
    /\ cl.pc = "cleanIndex" /\ cl.core.uid = hd.uid

\* The value of a token for a file.
TokenValue(file, name) == expandToken(file, name).value

\* A path with each of its tokens replaced by its value.
RECURSIVE Replaced(_, _)
Replaced(file, parts) ==
    IF parts = <<>> THEN <<>>
    ELSE (IF Head(parts).name = <<>> THEN Head(parts).text ELSE TokenValue(file, Head(parts).name))
         \o Replaced(file, Tail(parts))

\* The platform is known, or the path does not ask for it.
Expandable(file, parts) ==
    file.platform # <<>> \/ \A k \in 1..Len(parts) : parts[k].name # PLATFORM

\* C20 (as stated): Expand replaces every occurrence of $ORIGIN, $LIB and
\* $PLATFORM, with braces or without, wherever the token stands in the path:
\* at its start, in its middle, at its end, directly after another token.
\* (The two forms then give the same result.)
C20_Claim ==
    (ex.op = "Expand" /\ ex.done /\ Expandable(ex.file, ex.parts)) =>
        ex.err = NoErr /\ ex.out = Replaced(ex.file, ex.parts)

\* The call of ResolveImportedLibrary has returned, for a name without a
\* slash or for one with a slash.
Resolved(slash) == ex.op = "Resolve" /\ ex.done /\ ContainsSlash(ex.library) = slash

\* The reads of the dynamic section that the call makes succeed.
DynRead ==
    ex.file.dyn = "" \/ (ex.file.dyn = "DT_RPATH" /\ ex.file.runpath # <<>>)

\* What the k-th directory of a list gives for the library of the call: its
\* file is there, is missing, or the expansion or the stat fails.
DirOutcome(dirs, k) ==
    IF Expand(ex.file, dirs[k]).err # NoErr THEN "error"
    ELSE Stat(ex.fs, Join(Expand(ex.file, dirs[k]).out, ex.library))

\* The first of the directories of a list that have the given outcomes.
FirstDir(dirs, outcomes) ==
    CHOOSE k \in 1..Len(dirs) :
        /\ DirOutcome(dirs, k) \in outcomes
        /\ \A j \in 1..(k - 1) : DirOutcome(dirs, j) \notin outcomes

\* C17 (as stated): for a name without a slash, a call that returns no error
\* returns the first existing <dir>/<name> of the directories taken in the
\* order DT_RPATH, LD_LIBRARY_PATH, DT_RUNPATH, default directories, each
\* expanded; if none holds the file it returns the name and found = false.
C17_Claim ==
    (Resolved(FALSE) /\ ex.err = NoErr) =>
        LET dirs == ex.file.rpath \o ex.env.LibraryPathDirs \o ex.file.runpath \o ex.env.DefaultDirs
            there(k) == DirOutcome(dirs, k) = "ok"
        IN IF \E k \in 1..Len(dirs) : there(k)
           THEN ex.ok /\ ex.path = Join(Expand(ex.file, dirs[FirstDir(dirs, {"ok"})]).out, ex.library)
           ELSE ~ex.ok /\ ex.path = ex.library

\* C17 (amended): for a name without a slash, when the dynamic section is
\* read, the directories are taken in the order DT_RPATH (only if the file has
\* no DT_RUNPATH), LD_LIBRARY_PATH, DT_RUNPATH, default directories, each entry
\* as one directory expanded by Expand.  The search ends at the first directory
\* whose file is not missing: the file is there and <dir>/<name> is returned
\* with found = true, or the expansion or the stat failed and an error is
\* returned with found = false.  If the file is missing from every directory
\* the name is returned with found = false and no error.
C17_Amended ==
    (Resolved(FALSE) /\ DynRead) =>
        LET dirs == (IF ex.file.runpath = <<>> THEN ex.file.rpath ELSE <<>>)
                    \o ex.env.LibraryPathDirs \o ex.file.runpath \o ex.env.DefaultDirs
            ends(k) == DirOutcome(dirs, k) # "notexist"
        IN IF \E k \in 1..Len(dirs) : ends(k)
           THEN IF DirOutcome(dirs, FirstDir(dirs, {"ok", "error"})) = "ok"
                THEN /\ ex.ok /\ ex.err = NoErr
                     /\ ex.path = Join(Expand(ex.file, dirs[FirstDir(dirs, {"ok", "error"})]).out, ex.library)
                ELSE ~ex.ok /\ ex.err # NoErr
           ELSE ~ex.ok /\ ex.err = NoErr /\ ex.path = ex.library

\* The library is missing from the directory of DT_RPATH and is found in the
\* one of LD_LIBRARY_PATH, before the default directory that holds it too.
C17_Witness ==
    /\ Resolved(FALSE) /\ ex.file.dyn = ""
    /\ ex.file.rpath = <<DirA>> /\ ex.file.runpath = <<>> /\ ex.env.LibraryPathDirs = <<DirB>>
    /\ ex.fs.files = {<<"/", "b", "/", "x">>, <<"/", "d", "/", "x">>} /\ ex.fs.denied = {}
    /\ ex.ok /\ ex.path = <<"/", "b", "/", "x">>

C19_Claim ==
    (ex.op = "resolveLinks" /\ ex.done) =>
        /\ Len(ex.links) = Len(ex.taken)
        /\ \A k \in 1..Len(ex.taken) : ex.links[k].Name = ex.taken[k]

\* C21 (as stated): a string that holds no known token is returned as it is,
\* without an error and without a crash: tokens of unknown names in both
\* forms, a '$' at the end, a '$' before a byte that can neither be part of a
\* name nor open a brace.
C21_Claim ==
    (ex.op = "expand" /\ ex.done) => ex.err = NoErr /\ ex.out = ex.path

\* The link of the file that declared the library of the k-th link: the first
\* link before it whose file was found and imports that library.
Declarer(k) ==
    CHOOSE j \in 1..(k - 1) :
        /\ ex.links[j].Found /\ ex.links[k].Name \in Names(ex.elfs[ex.links[j].Path].libs)
        /\ \A i \in 1..(j - 1) :
            ~(ex.links[i].Found /\ ex.links[k].Name \in Names(ex.elfs[ex.links[i].Path].libs))

\* C22 (as stated): a library that is declared by another library and not by
\* the executable is resolved with $ORIGIN standing for the directory of the
\* file that declared it: its link is the one a resolution from that file
\* gives.
C22_Claim ==
    (ex.op = "resolveLinks" /\ ex.done /\ ex.err = NoErr) =>
        \A k \in 1..Len(ex.links) :
            ex.links[k].Name \notin Names(ex.elf.libs) =>
                ex.links[k] =
                    linkOf(ex.links[k].Name,
                           ResolveImportedLibrary([ex.file EXCEPT !.Path = ex.links[Declarer(k)].Path],
                                                  ex.env, ex.fs, ex.links[k].Name))

\* The last value the command line gives for a flag it sets, and the value of
\* the last line of the file that names a flag.
RECURSIVE LastArg(_, _)
LastArg(args, n) ==
    IF args[Len(args)].name = n THEN args[Len(args)].value
    ELSE LastArg(SubSeq(args, 1, Len(args) - 1), n)
RECURSIVE LastLine(_, _)
LastLine(file, n) ==
    IF file[Len(file)].key = n THEN file[Len(file)].val
    ELSE LastLine(SubSeq(file, 1, Len(file) - 1), n)

\* The file of the call is read: there is a configuration flag and the file
\* it names exists.
FileRead ==
    /\ ex.conf = FlagC
    /\ (IF FlagC \in Visited(ex.args) THEN LastArg(ex.args, FlagC) ELSE ConfDefault) \in ex.paths

\* C23: after a parse that returns no error every flag has the value of the
\* command line if it was set there, otherwise the value of its line in the
\* file if the file is read and has one (true for a line without '=', the
\* text between the quotes for a quoted value), otherwise its default.  With
\* an error or without, a flag the command line set keeps that value.
C23_Theorem ==
    (ex.op = "parse" /\ ex.done) =>
        \A n \in DOMAIN FlagDefaults :
            /\ n \in Visited(ex.args) => ex.flags[n] = LastArg(ex.args, n)
            /\ (ex.err = NoErr /\ n \notin Visited(ex.args)) =>
                ex.flags[n] = IF FileRead /\ \E k \in 1..Len(ex.file) : ex.file[k].key = n
                              THEN LastLine(ex.file, n)
                              ELSE FlagDefaults[n]

\* The command line sets one flag, the file names that flag and another one,
\* with quotes and dashes: the first keeps the value of the command line, the
\* second gets the value of the file.
C23_Witness ==
    /\ ex.op = "parse" /\ ex.done /\ ex.err = NoErr /\ FileRead
    /\ Visited(ex.args) = {FlagB}
    /\ Len(ex.file) = 2 /\ ex.file[1].text = <<"b", "=", "f", "a", "l", "s", "e">> /\ ex.file[2].text = <<"-", "-", "a", "=", "\"", "f", "\"">>
    /\ ex.flags[FlagB] = True /\ ex.flags[FlagA] = <<"f">>

\* The last of the pieces given to a map flag that has the key, among all of
\* them or among the pairs only.
LastPiece(key, pairs) ==
    CHOOSE k \in 1..Len(ex.applied) :
        /\ ex.applied[k].key = key /\ (pairs => ex.applied[k].eq)
        /\ \A j \in (k + 1)..Len(ex.applied) :
            ~(ex.applied[j].key = key /\ (pairs => ex.applied[j].eq))

\* C24 (as stated): after any sequence of Set calls the map holds, for every
\* key that a 'key=value' pair was given for, the value of the last such pair,
\* the keys of earlier calls included.
C24_Claim ==
    ex.op = "MapFlag" =>
        \A k \in 1..Len(ex.applied) :
            ex.applied[k].eq =>
                /\ ex.applied[k].key \in DOMAIN ex.m
                /\ ex.m[ex.applied[k].key] = ex.applied[LastPiece(ex.applied[k].key, TRUE)].val

\* C24 (amended): after any sequence of Set calls the keys of the map are the
\* keys of the pieces given so far, where each raw value is split on ';' into
\* pieces and each piece on its first '=', a piece without '=' being a key
\* with the empty value (the empty piece is the empty key); every key has the
\* value of the last piece given for it.
C24_Amended ==
    ex.op = "MapFlag" =>
        /\ DOMAIN ex.m = {ex.applied[k].key : k \in 1..Len(ex.applied)}
        /\ \A k \in 1..Len(ex.applied) :
            ex.m[ex.applied[k].key] = ex.applied[LastPiece(ex.applied[k].key, FALSE)].val

\* Two calls were made, the second one with two pairs, one of them for the
\* key of the first call: the map holds the later value and both keys.
C24_Witness ==
    /\ ex.op = "MapFlag" /\ ex.raws = <<>>
    /\ Len(ex.applied) = 3
    /\ ex.applied[1].text = <<"a", "=", "1">> /\ ex.applied[2].text = <<"b", "=", "1">> /\ ex.applied[3].text = <<"a", "=", "2">>
    /\ ex.m = (<<"a">> :> <<"2">>) @@ (<<"b">> :> <<"1">>)

\* C25: after Index(c), Find(c.uid) and Search return a coredump whose
\* metadata is the map given, the index holds one field meta.<key> for each
\* entry, and no field of an earlier, larger map is left.
C25_Claim ==
    ex.op = "Index" =>
        /\ \A uid \in DOMAIN ex.given :
            {n \in DOMAIN ex.ix[uid] : HasPrefix(n, MetaPrefix)}
                = {MetaPrefix \o k : k \in DOMAIN ex.given[uid].metadata}
        /\ (ex.found.done /\ ex.found.uid \in DOMAIN ex.given) =>
            /\ ex.found.err = NoErr
            /\ ex.found.c.metadata = ex.given[ex.found.uid].metadata
        /\ ex.searched =>
            \A uid \in DOMAIN ex.given :
                \E c \in ex.hits : c.uid = uid /\ c.metadata = ex.given[uid].metadata

\* A step takes the core file of u, or the executable of hash h, out of the
\* store.
CoreRemoved(u) == u \in store.cores /\ u \notin store'.cores
ExecutableRemoved(h) == h \in DOMAIN store.executables /\ h \notin DOMAIN store'.executables

\* C26 (as stated): the cleanup of a core runs Index.Delete, then
\* Store.DeleteCore, then the reclamation of the executable: the step that
\* removes the core file of u is the cleanStore of the cleanup of u, taken
\* when the index holds no document for u, and the step that removes an
\* executable is the cleanExecutable of a cleanup whose core file is gone.
C26_Claim ==
    [][/\ \A u \in 1..MaxUploads :
            CoreRemoved(u) =>
                cl.pc = "cleanStore" /\ cl.core.uid = u /\ u \notin DOMAIN index
       /\ \A h \in Hashes :
            ExecutableRemoved(h) =>
                /\ cl.pc = "cleanExecutable" /\ cl.core.executable_hash = h
                /\ cl.core.uid \notin store.cores]_vars

\* C26 (amended): the same order; when the core file of u is removed the
\* index holds a document for u only if an analysis wrote it back after the
\* Index.Delete of this cleanup (the document is then an analyzed one).
C26_Amended ==
    [][/\ \A u \in 1..MaxUploads :
            CoreRemoved(u) =>
                /\ cl.pc = "cleanStore" /\ cl.core.uid = u
                /\ u \in DOMAIN index => index[u].analyzed
       /\ \A h \in Hashes :
            ExecutableRemoved(h) =>
                /\ cl.pc = "cleanExecutable" /\ cl.core.executable_hash = h
                /\ cl.core.uid \notin store.cores]_vars

\* A cleanup stopped after Index.Delete: the document is gone, the core file
\* is an orphan.
C26_Witness ==
    /\ cl.pc = "cleanStore" /\ cl.removed
    /\ cl.core.uid \notin DOMAIN index /\ cl.core.uid \in store.cores

\* C27: a cleanup that finds the core file or the executable already absent
\* records no error for it, and after an absent core file the reclamation
\* check is still made (it answers whether a document references the hash).
C27_Claim ==
    /\ (cl.pc = "cleanStore" /\ cl.err = NoErr /\ cl.core.uid \notin store.cores) =>
        /\ cleanStore(cl, store).p.err = NoErr
        /\ canCleanExecutable(cleanStore(cl, store).p, index)
            = (SearchExecutableHash(index, cl.core.executable_hash) = {})
    /\ (cl.pc = "cleanExecutable" /\ cl.err = NoErr
            /\ ~ExecutableExists(store, cl.core.executable_hash)) =>
        cleanExecutable(cl, store).p.err = NoErr

\* A step puts back in the index the document of a core that a cleanup was
\* given.
Resurrected(u) == u \in deleted /\ u \notin DOMAIN index /\ u \in DOMAIN index'

\* C28: a deleted document comes back only by the last write of an analysis
\* of that core that had read the document before the deletion: an analysis
\* that reads after the deletion finds nothing and stops with an error, and
\* after the write of the analysis no step puts a deleted document back.
\* (That the interleaving exists is the witness.)
C28_Theorem ==
    [][/\ \A u \in 1..MaxUploads :
            Resurrected(u) =>
                /\ an.pc = "run" /\ an'.pc = "idle"
                /\ an.uid = u /\ an.err = NoErr /\ an.core.uid = u
       /\ (an.pc = "init" /\ an'.pc = "run" /\ an.uid \notin DOMAIN index) =>
            an'.err # NoErr]_vars

\* The core was deleted while it was analysed, its cleanup has ended, and the
\* index holds its document again, written by the analysis.
C28_Witness ==
    \E u \in deleted :
        /\ CleanupRan(u) /\ an.pc = "idle"
        /\ u \notin store.cores
        /\ u \in DOMAIN index /\ index[u].analyzed

\* The fields of a document that are not results of the analysis.
Frame(c) ==
    [uid |-> c.uid, executable_hash |-> c.executable_hash,
     executable_size |-> c.executable_size, links |-> c.links]

Received(uid) ==
    /\ an.pc = "idle" /\ an'.pc = "init" /\ an'.uid = uid
    /\ \/ \E r \in Slots : up[r].pc = "send" /\ up'[r].pc # "send" /\ up[r].uid = uid
       \/ hd.pc = "send" /\ hd'.pc = "done" /\ hd.kind = "analyze" /\ hd.uid = uid

\* C30: one analysis at most is in progress: the worker receives a uid only
\* when it is idle and what it then analyses is the uid received; the
\* analysis in progress keeps its uid to its end, reads the document of that
\* uid and is the only one to write in an indexed document, the one of its
\* uid, as its last step.
C30_Theorem ==
    [][/\ (an'.pc = "init" /\ an' # an) => Received(an'.uid)
       /\ (an.pc # "idle" /\ an'.pc # "idle") => an'.uid = an.uid
       /\ (an.pc = "init" /\ an'.pc = "run" /\ an'.err = NoErr) => an'.core.uid = an.uid
       /\ \A u \in DOMAIN index :
            (u \notin DOMAIN index' \/ index'[u] # index[u]) =>
                an.pc = "index" /\ an'.pc = "idle" /\ an.uid = u /\ an.core.uid = u]_vars

\* An analysis of a document is in progress, between its read and its write,
\* while a request of analysis of the same document waits to send its uid.
C30_Witness ==
    /\ an.pc = "index" /\ an.err = NoErr
    /\ hd.pc = "send" /\ hd.kind = "analyze" /\ hd.uid = an.uid
    /\ index[an.uid].analyzed

\* C31: an upload is answered 200 only by the step that completes its send
\* on the analysis queue, after its document was indexed; while the worker is
\* busy the handler that is to send stays where it is, with no response.
C31_Theorem ==
    [][\A r \in Slots :
        /\ (up'[r].status = StatusOK /\ up[r].status # StatusOK) =>
            /\ up[r].pc = "send" /\ "index" \in Events(r)
            /\ an.pc = "idle" /\ an'.pc = "init" /\ an'.uid = up[r].uid
        /\ (up[r].pc = "send" /\ an.pc # "idle") =>
            up'[r] = up[r] /\ up[r].status = 0]_vars

\* An upload has indexed its document and waits to send while the worker
\* analyses another core.
C31_Witness ==
    \E r \in Slots :
        /\ up[r].pc = "send" /\ up[r].status = 0
        /\ up[r].uid \in DOMAIN index
        /\ an.pc = "run" /\ an.uid # up[r].uid

C34_Theorem ==
    /\ [](\A r \in Started :
            up[r].err # NoErr =>
                /\ read(up[r]) = up[r]
                /\ readCore(up[r], store) = [rq |-> up[r], st |-> store]
                /\ readExecutable(up[r], store) = [rq |-> up[r], st |-> store]
                /\ computeExecutableSize(up[r], store) = up[r]
                /\ indexCore(up[r], index) = [rq |-> up[r], ix |-> index]
                /\ receive(up[r], store) = [rq |-> up[r], st |-> store])
    /\ [][\A r \in Started :
            up[r].err # NoErr =>
                /\ up'[r].err = up[r].err
                /\ up'[r] # up[r] =>
                    /\ index' = index /\ store' = store
                    /\ up'[r].pc = "done" /\ up'[r].body = up[r].err]_vars

\* An upload whose header could not be parsed was answered with that error:
\* only the header was read, no core file was made, no document indexed.
C34_Witness ==
    \E r \in Slots :
        /\ up[r].pc = "done" /\ up[r].status = StatusInternalServerError
        /\ up[r].body = "parsing header" /\ up[r].segs = 1
        /\ up[r].uid \notin store.cores /\ up[r].uid \notin Indexed

\* The libraries of a call depend on each other in a cycle: a library that is
\* found imports itself, or two found libraries import each other.
Cyclic(c) ==
    \E p, q \in DOMAIN c.elfs :
        /\ p \in c.fs.files /\ q \in c.fs.files
        /\ \E k \in 1..Len(c.elfs[p].libs) : c.elfs[p].libs[k] = <<q[Len(q)]>>
        /\ \E k \in 1..Len(c.elfs[q].libs) : c.elfs[q].libs[k] = <<p[Len(p)]>>

\* resolveLinks returns on every call, cycles included, after it has taken at
\* most every name once more than the executable repeats it.
C35_Returns ==
    (ex.op = "resolveLinks" /\ ex.done) =>
        /\ Len(ex.taken) <= Len(ex.elf.libs) + 1
        /\ (ex.err = NoErr => Len(ex.links) = Len(ex.taken))
        /\ (Cardinality(Names(ex.elf.libs)) = Len(ex.elf.libs) =>
                \A i, j \in 1..Len(ex.taken) : i # j => ex.taken[i] # ex.taken[j])

C35_Cycle ==
    /\ ex.op = "resolveLinks" /\ ex.done /\ ex.err = NoErr
    /\ Cyclic(ex) /\ Len(ex.links) = 2

\* C35: resolveLinks returns for every set of libraries, cycles included, and
\* no library name is twice in the list of links it returns.
C35_Claim ==
    (ex.op = "resolveLinks" /\ ex.done) =>
        /\ Len(ex.taken) <= Len(ex.elf.libs) + 1
        /\ \A i, j \in 1..Len(ex.links) : i # j => ex.links[i].Name # ex.links[j].Name

\* The entries of a path, an empty one read as ".".
Entries(path) ==
    [k \in 1..Len(Split(path, ":")) |->
        IF Split(path, ":")[k] = <<>> THEN DirDot ELSE Split(path, ":")[k]]

\* The entries without those that were there before, in their order.
RECURSIVE FirstOnes(_, _)
FirstOnes(entries, before) ==
    IF entries = <<>> THEN <<>>
    ELSE IF Head(entries) \in before THEN FirstOnes(Tail(entries), before)
    ELSE <<Head(entries)>> \o FirstOnes(Tail(entries), before \cup {Head(entries)})

\* C36: after SetLibraryPath, LibraryPathDirs holds the entries of the
\* argument in their order, "." for an empty one, each directory once (its
\* first occurrence); it is nil for the empty argument.
C36_Claim ==
    (ex.op = "SetLibraryPath" /\ ex.done) =>
        /\ ex.LibraryPathDirs.nil = (ex.path = <<>>)
        /\ ex.LibraryPathDirs.dirs = (IF ex.path = <<>> THEN <<>> ELSE FirstOnes(Entries(ex.path), {}))

\* What holds of SetLibraryPath: every entry is kept, repeated or not.
C36_Kept ==
    (ex.op = "SetLibraryPath" /\ ex.done) =>
        /\ ex.LibraryPathDirs.nil = (ex.path = <<>>)
        /\ ex.LibraryPathDirs.dirs = (IF ex.path = <<>> THEN <<>> ELSE Entries(ex.path))

\* The bytes are those of a whole executable of hash h.
Whole(bytes, h) == bytes \in ExeFiles /\ hashExecutable(bytes) = h

\* C38: a file executables/<hash> that ExecutableExists reports holds the
\* whole bytes of a finished StoreExecutable; so does the size an upload
\* without executable recorded, and the file the analyzer opened.
C38_Claim ==
    /\ \A h \in Hashes : ExecutableExists(store, h) => Whole(store.executables[h], h)
    /\ \A r \in Slots :
        (~up[r].req.include_executable /\ up[r].pc \in {"index", "send", "done"} /\ up[r].err = NoErr)
            => \E f \in ExeFiles : Whole(f, up[r].req.executable_hash)
                                    /\ up[r].coredump.executable_size = Len(f)
    /\ (an.pc = "run" /\ an.err = NoErr) => Whole(an.executable, an.core.executable_hash)

\* An upload without the executable was indexed with the size of the file
\* another upload of that hash had created and not yet filled.
C38_SizeOfPartial ==
    \E r, q \in Slots :
        /\ up[q].pc = "copy" /\ up[q].req.executable_hash = up[r].req.executable_hash
        /\ ~up[r].req.include_executable /\ up[r].uid \in Indexed
        /\ index[up[r].uid].executable_size = 0

\* The analyzer opened the file another upload of that hash was filling.
C38_OpenedPartial ==
    \E q \in Slots :
        /\ up[q].pc = "copy" /\ up[q].req.executable_hash = an.core.executable_hash
        /\ an.pc = "run" /\ an.err = NoErr /\ an.executable = <<>>

\* C40: an analysis that starts for a uid without document in the index
\* records the error of Find, and neither its first step nor its end writes
\* in the index or changes the store.
C40_Theorem ==
    [][/\ (an.pc = "init" /\ an'.pc = "run" /\ an.uid \notin DOMAIN index) =>
            /\ an'.err = "finding indexed core" /\ an'.core = ZeroCoredump
            /\ index' = index /\ store' = store
       /\ (an.pc = "run" /\ an.err = "finding indexed core" /\ an' # an) =>
            /\ an'.pc = "idle"
            /\ index' = index /\ store' = store]_vars

\* The core was deleted and its document removed before its analysis began:
\* the analysis found nothing, and neither document nor core file is there.
C40_Witness ==
    /\ an.pc = "run" /\ an.err = "finding indexed core"
    /\ an.uid \in deleted /\ an.uid \notin DOMAIN index
    /\ cl.pc = "idle" /\ an.uid \notin store.cores

\* C32: when run returns the queue was closed, no analysis is in progress and
\* the worker has left its loop; and once the queue is closed the worker
\* receives nothing more.
C32_Claim ==
    /\ []((ex.op = "run" /\ ex.returned) =>
            ex.closed /\ an.pc = "idle" /\ ex.worker = "exited")
    /\ [][(ex.op = "run" /\ ex.closed) => ~(an.pc = "idle" /\ an'.pc = "init")]_vars

\* What holds of the shutdown: the queue is closed before run returns, and
\* nothing is received from the closed queue.
C32_Closed ==
    /\ []((ex.op = "run" /\ ex.returned) => ex.closed /\ ex.shutdown)
    /\ [][(ex.op = "run" /\ ex.closed) => ~(an.pc = "idle" /\ an'.pc = "init")]_vars

\* run has returned while the analysis of an uploaded core was in progress.
C32_Interrupted ==
    /\ ex.op = "run" /\ ex.returned /\ ex.closed
    /\ an.pc = "run" /\ an.err = NoErr /\ <<an.uid, "indexCore">> \in ex.sends

\* C37: no goroutine sends on the analysis queue once it is closed.
C37_Claim == ex.op = "run" => ex.panics = {}

\* The recovery goroutine sent on the closed queue.
C37_Recovery == ex.op = "run" /\ "recovery" \in ex.panics

\* The upload was indexed before the recovery goroutine searched: its uid was
\* sent by the handler and by the recovery goroutine.
C39_Twice ==
    /\ ex.op = "run"
    /\ \E r \in Slots : {<<up[r].uid, "indexCore">>, <<up[r].uid, "recovery">>} \subseteq ex.sends

\* C39: the uid of an upload of this run that was not submitted to
\* /cores/:uid/_analyze is received at most once from the analysis queue.
C39_Claim ==
    ex.op = "run" =>
        \A r \in Slots :
            (up[r].uid # 0 /\ <<up[r].uid, "analyzeCore">> \notin ex.sends)
                => Cardinality({p \in ex.sends : p[1] = up[r].uid}) <= 1

====
